---- MODULE Spec2Model ----
(***************************************************************************)
(* MyChat: chat-export parsers (WhatsApp, Telegram, CSV), the parser       *)
(* router, the Telegram multi-file merge, and the analyzers that consume   *)
(* the parsed message list.                                                *)
(*                                                                         *)
(* Conventions of the model                                                *)
(*  - A JavaScript string is a sequence of tokens (words, " ", "\n", ...). *)
(*    Len counts tokens, trim strips whitespace tokens, includes looks for *)
(*    a contiguous run of tokens.                                          *)
(*  - A point in time (Date.getTime()) is an integer number of seconds;    *)
(*    the code's millisecond constants are scaled by 1000.  An Invalid     *)
(*    Date is the value NaN.                                               *)
(*  - null / undefined is None (the empty tuple), a present value x is     *)
(*    Some(x).                                                             *)
(***************************************************************************)
EXTENDS Integers, Sequences, FiniteSets, TLC

VARIABLES
    \* ---- parseFile and the three parsers (one call in progress)
    file,            \* the (filename, content) pair handed to parseFile
    pc,              \* where the call is
    idx,             \* number of lines / rows / blocks consumed by the loop
    messages,        \* the parser's local `messages` array
    currentMessage,  \* parseWhatsApp: the open message (None or Some)
    currentDate,     \* Telegram: the running date
    lastSender,      \* parseTelegramExport: sender of the last produced message
    parsed,          \* None, or Some(result) returned by parseFile
    error,           \* None, or Some(class of the Error thrown)
    \* ---- parseCSVLine (one call)
    csvLine,         \* the line handed to parseCSVLine
    csvValues,       \* None, or Some(array of values it returned)
    csvFields,       \* the fields of the record the line was written from
    \* ---- mergeTelegramResults
    results,         \* the array of parsed results handed to the merge
    merged,          \* None, or Some(result of the merge)
    \* ---- analyzers
    filteredMessages, \* the message array handed to the analyzers
    analysisResults,  \* None, or Some(result of the analyzer under study)
    stNow,            \* the 'now' the caller of analyzeStreaks means
    \* ---- the page: parsed data and the filter panel
    parsedData,           \* None, or Some([messages, metadata]) kept since parse time
    excludedParticipants, \* the set of unchecked participants
    startDate,            \* value of the #startDate input: None (empty) or Some(day)
    endDate,              \* value of the #endDate input: None (empty) or Some(day)
    currentFile,          \* None, or Some(file) chosen with the file input
    allParticipants,      \* the senders found at parse time
    isReanalyzing,        \* the flag applyParticipantFilter's timeout sets
    scheduled,            \* the timeout of applyParticipantFilter is pending
    uploadShown,          \* .upload-section is not hidden
    resultsShown,         \* DOM.resultsSection is not hidden
    \* ---- environment
    clock,           \* what new Date() / Date.now() returns
    tz               \* local time zone: local time = UTC + tz seconds

parseVars == <<file, pc, idx, messages, currentMessage, currentDate, lastSender, parsed, error>>
lineVars == <<csvLine, csvValues, csvFields>>
mergeVars == <<results, merged>>
analysisVars == <<filteredMessages, analysisResults, stNow>>
pageVars == <<currentFile, allParticipants, isReanalyzing, scheduled, uploadShown, resultsShown>>
appVars == <<parsedData, excludedParticipants, startDate, endDate, pageVars>>
envVars == <<clock, tz>>
vars == <<parseVars, lineVars, mergeVars, analysisVars, appVars, envVars>>

\* ------------------------------------------------------------------ values

None == <<>>
Some(x) == <<x>>

\* An Invalid Date: getTime() is NaN.
NaN == -1

\* A number in an analyzer's result: finite, or the NaN that 0 / 0 and
\* arithmetic on undefined give.
NotANumber == <<"NaN">>
Finite(x) == <<"number", x>>
IsFinite(v) == v[1] = "number"

\* What a call leaves behind when it reads a property of undefined.
TypeError == [thrown |-> "TypeError"]

SecondsPerMinute == 60
SecondsPerHour == 3600
SecondsPerDay == 86400

\* ------------------------------------------------------------------ bounds

MaxLines == 3
MaxRows == 3
MaxBlocks == 3
MaxFiles == 2
MaxResponseMessages == 3
MaxInitiationMessages == 3
MaxStreakMessages == 4
MaxPeakMessages == 3
MaxEmojiMessages == 3
MaxAppMessages == 2
MaxAnalyzeMessages == 5
MaxRhythmMessages == 5
MaxActivityMessages == 3
MaxPeriodMessages == 56
MaxInitiations == 8
MaxFields == 3
ClockValues == {10 * SecondsPerDay + 12 * SecondsPerHour}

\* ------------------------------------------------------------------ strings

IsWhitespace(c) == c \in {" ", "\n"}

RECURSIVE TrimStart(_)
TrimStart(s) ==
    IF s = <<>> THEN s
    ELSE IF IsWhitespace(Head(s)) THEN TrimStart(Tail(s)) ELSE s

RECURSIVE TrimEnd(_)
TrimEnd(s) ==
    IF s = <<>> THEN s
    ELSE IF IsWhitespace(s[Len(s)]) THEN TrimEnd(SubSeq(s, 1, Len(s) - 1)) ELSE s

trim(s) == TrimEnd(TrimStart(s))

LowerToken(c) ==
    CASE c = "System" -> "system"
      [] c = "Media" -> "media"
      [] c = "TXT" -> "txt"
      [] c = "CSV" -> "csv"
      [] c = "Sender" -> "sender"
      [] OTHER -> c

toLowerCase(s) == [i \in 1..Len(s) |-> LowerToken(s[i])]

includes(s, sub) ==
    \E i \in 0..(Len(s) - Len(sub)) : SubSeq(s, i + 1, i + Len(sub)) = sub

\* s.split('\n')[0]
RECURSIVE FirstLine(_)
FirstLine(s) ==
    IF s = <<>> THEN s
    ELSE IF Head(s) = "\n" THEN <<>>
    ELSE <<Head(s)>> \o FirstLine(Tail(s))

\* ------------------------------------------------------------------ sorting

\* a.timestamp - b.timestamp > 0
ComesAfter(a, b) == a.timestamp > b.timestamp

\* Array.prototype.sort is stable: an element goes after every element
\* that does not compare greater than it.
RECURSIVE InsertByTimestamp(_, _)
InsertByTimestamp(sorted, m) ==
    IF sorted = <<>> THEN <<m>>
    ELSE IF ~ComesAfter(sorted[Len(sorted)], m) THEN Append(sorted, m)
    ELSE Append(InsertByTimestamp(SubSeq(sorted, 1, Len(sorted) - 1), m),
                sorted[Len(sorted)])

RECURSIVE sortByTimestamp(_)
sortByTimestamp(ms) ==
    IF ms = <<>> THEN <<>>
    ELSE InsertByTimestamp(sortByTimestamp(SubSeq(ms, 1, Len(ms) - 1)), ms[Len(ms)])

\* [...new Set(xs)]: first occurrences, in order
RECURSIVE Unique(_)
Unique(xs) ==
    IF xs = <<>> THEN <<>>
    ELSE LET front == Unique(SubSeq(xs, 1, Len(xs) - 1))
             last == xs[Len(xs)]
         IN IF \E i \in 1..Len(front) : front[i] = last THEN front
            ELSE Append(front, last)

Senders(ms) == [i \in 1..Len(ms) |-> ms[i].sender]

\* ------------------------------------------------------------------ WhatsApp

systemIndicators ==
    { <<"created", " ", "group">>,
      <<"added", " ", "you">>,
      <<"changed", " ", "the", " ", "subject">>,
      <<"changed", " ", "this", " ", "group">>,
      <<"left", " ", "the", " ", "group">>,
      <<"removed">>,
      <<"security", " ", "code", " ", "changed">>,
      <<"messages", " ", "and", " ", "calls", " ", "are", " ", "end-to-end", " ", "encrypted">>,
      <<"you", " ", "deleted", " ", "this", " ", "message">>,
      <<"this", " ", "message", " ", "was", " ", "deleted">>,
      <<"media", " ", "omitted">>,
      <<"<", "Media", " ", "omitted", ">">>,
      <<"missed", " ", "voice", " ", "call">>,
      <<"missed", " ", "video", " ", "call">>,
      <<"joined", " ", "using", " ", "this", " ", "group">> }

isSystemMessage(sender, text) ==
    LET lowerText == toLowerCase(text)
        lowerSender == toLowerCase(sender)
    IN IF includes(lowerSender, <<"system">>) \/ lowerSender = <<>> THEN TRUE
       ELSE \E indicator \in systemIndicators : includes(lowerText, toLowerCase(indicator))

\* A line of a .txt file, as the parser's regular expressions see it:
\*   kind "blank": line.trim() is empty
\*   kind "msg":   the trimmed line matches one of `patterns`; ts is what
\*                 parseDateTime makes of the date and time groups, sender and
\*                 text are the third and fourth groups
\*   kind "other": the trimmed line is not empty and matches no pattern; text
\*                 is the trimmed line
\*   prefix:       which of the three whatsappPatterns of detectFileType the
\*                 raw line matches at its start (1 slash dates, 2 bracketed,
\*                 3 dash dates), 0 when none does
WALine(kind, ts, sender, text, prefix) ==
    [kind |-> kind, ts |-> ts, sender |-> sender, text |-> text, prefix |-> prefix]

\* mutant: the system-message test is skipped
openMessage_KeepSystem(line) ==
    Some([timestamp |-> line.ts, sender |-> trim(line.sender), text |-> trim(line.text)])

\* the message a matching line opens (None for a system message)
openMessage(line) ==
    IF isSystemMessage(line.sender, line.text) THEN None
    ELSE Some([timestamp |-> line.ts, sender |-> trim(line.sender), text |-> trim(line.text)])

\* messages.push(currentMessage) when there is one
pushCurrent(msgs, cm) == IF cm # None THEN Append(msgs, cm[1]) ELSE msgs

\* mutant: the newline separator is forgotten
appendContinuation_NoSeparator(cm, trimmedLine) ==
    IF cm # None THEN Some([cm[1] EXCEPT !.text = @ \o trimmedLine])
    ELSE None

\* currentMessage.text += '\n' + trimmedLine, when there is a current message
appendContinuation(cm, trimmedLine) ==
    IF cm # None THEN Some([cm[1] EXCEPT !.text = @ \o <<"\n">> \o trimmedLine])
    ELSE None

\* the metadata every parser builds
metadataOf(msgs, format, chatName) ==
    [format |-> format,
     totalMessages |-> Len(msgs),
     participants |-> Unique(Senders(msgs)),
     chatName |-> chatName]

\* finish of parseWhatsApp: the array it returns (after the final push and sort)
whatsAppMessages(msgs, cm) == sortByTimestamp(pushCurrent(msgs, cm))

\* ------------------------------------------------------------------ CSV

\* A cell is a value parseCSVLine returned (already trimmed):
\*   s:    its text
\*   date: what new Date(s).getTime() is (NaN when the native parse fails)
\*   fmt:  s matches one of the three fallback `formats` of parseTimestamp
Cell(s, date, fmt) == [s |-> s, date |-> date, fmt |-> fmt]

\* parseCSVLine reads a line character by character; a line is a sequence of
\* characters.  One turn of its loop on `char`, with line[i + 1] as `next`
\* (None past the end): the values pushed so far, the value being read, the
\* quote mode, and whether the loop skips the next character.
\* mutant: a comma ends the value in quote mode too
csvStep_SplitInQuotes(st, char, next) ==
    IF char = "\""
    THEN IF st.inQuotes /\ next = Some("\"")
         THEN [st EXCEPT !.current = Append(@, "\""), !.skip = TRUE]
         ELSE [st EXCEPT !.inQuotes = ~@, !.skip = FALSE]
    ELSE IF char = ","
         THEN [st EXCEPT !.values = Append(@, trim(st.current)), !.current = <<>>,
                         !.skip = FALSE]
         ELSE [st EXCEPT !.current = Append(@, char), !.skip = FALSE]

csvStep(st, char, next) ==
    IF char = "\""
    THEN IF st.inQuotes /\ next = Some("\"")
         THEN [st EXCEPT !.current = Append(@, "\""), !.skip = TRUE]
         ELSE [st EXCEPT !.inQuotes = ~@, !.skip = FALSE]
    ELSE IF char = "," /\ ~st.inQuotes
         THEN [st EXCEPT !.values = Append(@, trim(st.current)), !.current = <<>>,
                         !.skip = FALSE]
         ELSE [st EXCEPT !.current = Append(@, char), !.skip = FALSE]

\* the loop of parseCSVLine from position i (counted from 1) on
RECURSIVE csvLoop(_, _, _)
csvLoop(text, i, st) ==
    IF i > Len(text) THEN st
    ELSE LET after == csvStep(st, text[i], IF i < Len(text) THEN Some(text[i + 1]) ELSE None)
         IN csvLoop(text, IF after.skip THEN i + 2 ELSE i + 1, after)

parseCSVLine(text) ==
    LET st == csvLoop(text, 1, [values |-> <<>>, current |-> <<>>, inQuotes |-> FALSE,
                                skip |-> FALSE])
    IN Append(st.values, trim(st.current))

timestampNames == <<"timestamp", "date", "time", "datetime", "created_at", "date_time", "sent_at">>
senderNames == <<"sender", "from", "author", "user", "name", "participant", "from_user", "username">>
messageNames == <<"message", "text", "content", "body", "message_text", "msg", "message_content">>

\* header.indexOf(name): 0-based, None when absent
indexOf(header, name) ==
    IF \E i \in 1..Len(header) : header[i] = name
    THEN Some((CHOOSE i \in 1..Len(header) :
                  header[i] = name /\ \A j \in 1..(i - 1) : header[j] # name) - 1)
    ELSE None

RECURSIVE findColumnIndex(_, _)
findColumnIndex(header, possibleNames) ==
    IF possibleNames = <<>> THEN None
    ELSE IF indexOf(header, Head(possibleNames)) # None
         THEN indexOf(header, Head(possibleNames))
         ELSE findColumnIndex(header, Tail(possibleNames))

mapColumns(header) ==
    LET lowerHeader == toLowerCase(header)
    IN [timestamp |-> findColumnIndex(lowerHeader, timestampNames),
        sender |-> findColumnIndex(lowerHeader, senderNames),
        message |-> findColumnIndex(lowerHeader, messageNames)]

\* !x for a column index: null and 0 are both falsy
Falsy(index) == index = None \/ index[1] = 0

\* the missing-columns test of parseCSV
columnsMissing(columnMap) ==
    Falsy(columnMap.timestamp) \/ Falsy(columnMap.sender) \/ Falsy(columnMap.message)

\* parseTimestamp: None for null, Some(t) for a Date object (t may be NaN)
parseTimestamp(cell) ==
    IF cell.date # NaN THEN Some(cell.date)
    ELSE IF cell.fmt THEN Some(cell.date)
    ELSE None

Max3(a, b, c) ==
    IF a >= b /\ a >= c THEN a ELSE IF b >= c THEN b ELSE c

\* one data row: None when the row is skipped, else Some(message)
rowMessage(values, columnMap) ==
    LET it == columnMap.timestamp[1]
        is == columnMap.sender[1]
        im == columnMap.message[1]
    IN IF Len(values) < Max3(it, is, im) + 1 THEN None
       ELSE LET timestampStr == values[it + 1]
                sender == values[is + 1]
                text == values[im + 1]
            IN IF sender.s = <<>> \/ text.s = <<>> \/ timestampStr.s = <<>> THEN None
               ELSE IF parseTimestamp(timestampStr) = None THEN None
               ELSE Some([timestamp |-> parseTimestamp(timestampStr)[1],
                          sender |-> trim(sender.s),
                          text |-> trim(text.s)])

HasNaN(msgs) == \E i \in 1..Len(msgs) : msgs[i].timestamp = NaN

IsPermutationOf(a, b) ==
    /\ Len(a) = Len(b)
    /\ \E p \in [1..Len(a) -> 1..Len(a)] :
          /\ \A i, j \in 1..Len(a) : i # j => p[i] # p[j]
          /\ \A i \in 1..Len(a) : a[i] = b[p[i]]

\* messages.sort((a, b) => a.timestamp - b.timestamp): with an Invalid Date
\* the comparator returns NaN and is not a consistent comparator, so the
\* resulting order is implementation-defined: any permutation.
csvSortOutcomes(msgs) ==
    IF HasNaN(msgs)
    THEN {[i \in 1..Len(msgs) |-> msgs[p[i]]] :
             p \in {q \in [1..Len(msgs) -> 1..Len(msgs)] :
                       \A i, j \in 1..Len(msgs) : i # j => q[i] # q[j]}}
    ELSE {sortByTimestamp(msgs)}

\* ------------------------------------------------------------------ Telegram

\* local midnight of the local day of instant t, in zone `zone`
\* (Date.prototype.setHours(0, 0, 0, 0))
LocalMidnight(t, zone) == ((t + zone) \div SecondsPerDay) * SecondsPerDay - zone

\* d.setHours(h, m, 0, 0)
setHours(t, h, m, zone) == LocalMidnight(t, zone) + h * SecondsPerHour + m * SecondsPerMinute

\* An element of the document, as the selectors of the parser see it:
\*   cls:    "service", "message" (message default) or "other"
\*   date:   parseDateFromText of its text (None: no date in it)
\*   long:   its textContent has 30 characters or more
\*   from:   textContent of its .from_name (None: no such element)
\*   text:   textContent of its .text (None: no such element)
\*   media:  textContent of its '.media .title, .media .description'
\*   dateEl: the first '.pull_right.date, .date, [title]' below it:
\*           kind "none" (no such element), "title" (it has a non-empty title
\*           attribute; title is parseFullDateTime of it), "text" (no title);
\*           time is the <<h, m>> its text shows, if any
Element(cls, date, long, from, text, media, dateEl) ==
    [cls |-> cls, date |-> date, long |-> long, from |-> from, text |-> text,
     media |-> media, dateEl |-> dateEl]

DateEl(kind, title, time) == [kind |-> kind, title |-> title, time |-> time]

\* mutant: no fallback to the last sender
resolveSender_NoFallback(el, last) ==
    LET sender == IF el.from # None THEN Some(trim(FirstLine(trim(el.from[1])))) ELSE None
    IN IF sender = None \/ sender[1] = <<>> THEN None ELSE sender

\* the sender parseDefaultMessage resolves: None when it gives up
resolveSender(el, last) ==
    LET sender == IF el.from # None THEN Some(trim(el.from[1])) ELSE last
        cleaned == IF sender # None /\ sender[1] # <<>>
                   THEN Some(trim(FirstLine(sender[1]))) ELSE sender
    IN IF cleaned = None \/ cleaned[1] = <<>> THEN None ELSE cleaned

\* the text of a message block
resolveText(el) ==
    LET text == IF el.text # None THEN trim(el.text[1]) ELSE <<>>
    IN IF text # <<>> THEN text
       ELSE IF el.media # None THEN <<"[Media: ">> \o trim(el.media[1]) \o <<"]">>
       ELSE <<"[Media]">>

\* <<timestamp, extractedDate>> of a message block
resolveTimestamp(el, current, zone) ==
    LET d == el.dateEl
    IN IF d.kind = "none" THEN <<current, None>>
       ELSE IF d.kind = "title"
            THEN IF d.title # None
                 THEN <<d.title[1], Some(LocalMidnight(d.title[1], zone))>>
                 ELSE <<current, None>>
            ELSE IF d.time # None
                 THEN <<setHours(current, d.time[1][1], d.time[1][2], zone), None>>
                 ELSE <<current, None>>

parseDefaultMessage(el, current, last, zone) ==
    LET sender == resolveSender(el, last)
        stamp == resolveTimestamp(el, current, zone)
    IN IF sender = None THEN None
       ELSE IF stamp[1] = NaN THEN None     \* toISOString throws, caught
       ELSE Some([timestamp |-> stamp[1],
                  sender |-> sender[1],
                  text |-> resolveText(el),
                  extractedDate |-> stamp[2]])

\* one div of parseAlternativeFormat: None, or Some(message)
alternativeMessage(div, current) ==
    IF div.from # None /\ div.text # None
    THEN LET sender == FirstLine(trim(div.from[1]))
             msgText == trim(div.text[1])
         IN IF sender # <<>> /\ msgText # <<>>
            THEN Some([timestamp |-> current, sender |-> sender, text |-> msgText,
                       extractedDate |-> None])
            ELSE None
    ELSE None

\* a div of parseAlternativeFormat is a date header
isDateHeader(div) == div.date # None /\ ~div.long

DefaultChatName == <<"Telegram Chat">>

\* the chat name of the page header ('Telegram Chat' without one)
chatNameOf(content) ==
    IF content.chatName # None THEN trim(content.chatName[1]) ELSE DefaultChatName

\* the array parseTelegramExport returns on the .history path
telegramMessages(msgs) == sortByTimestamp(msgs)

\* the array parseAlternativeFormat returns
alternativeMessages(msgs) == msgs

\* ------------------------------------------------------------------ router

\* filename.toLowerCase().split('.').pop(); a filename is its dot-separated parts
extensionOf(name) == LowerToken(name[Len(name)])

\* the marker strings in the order isTelegramFormat looks for them
TelegramMarkers ==
    <<"page_wrap", "message default", "class=\"history\"", "from_name", "Telegram">>

\* the chain of content.includes(...) || ...: content.markers is the set of
\* marker strings the text holds
RECURSIVE includesAnyOf(_, _)
includesAnyOf(content, markers) ==
    IF markers = <<>> THEN FALSE
    ELSE IF Head(markers) \in content.markers THEN TRUE
    ELSE includesAnyOf(content, Tail(markers))

isTelegramFormat(content) == includesAnyOf(content, TelegramMarkers)

\* mutant: without the m flag ^ matches at the start of the content only
test_NoMultiline(pattern, lines, from) ==
    lines # <<>> /\ lines[1].prefix = pattern

\* pattern.test(content) with the m flag: the lines from `from` on are tried
\* one after the other
RECURSIVE test(_, _, _)
test(pattern, lines, from) ==
    IF from > Len(lines) THEN FALSE
    ELSE IF lines[from].prefix = pattern THEN TRUE
    ELSE test(pattern, lines, from + 1)

\* the for loop over whatsappPatterns, from pattern number `pattern` on
RECURSIVE anyPatternMatches(_, _)
anyPatternMatches(lines, pattern) ==
    IF pattern > 3 THEN FALSE
    ELSE IF test(pattern, lines, 1) THEN TRUE
    ELSE anyPatternMatches(lines, pattern + 1)

detectFileType(f) ==
    LET extension == extensionOf(f.name)
    IN IF extension = "csv" THEN "csv"
       ELSE IF extension \in {"html", "htm"} /\ isTelegramFormat(f.body)
            THEN "telegram"
       ELSE IF extension = "txt" /\ anyPatternMatches(f.body, 1)
            THEN "whatsapp"
       ELSE "unknown"

\* ------------------------------------------------------------------ inputs of parseFile

SeqsUpTo(S, n) == UNION {[1..k -> S] : k \in 0..n}

WALines ==
    { WALine("msg", 100, <<"Alice">>, <<"hi">>, 1),
      WALine("msg", 50, <<"Bob", " ">>, <<"yo">>, 2),
      WALine("msg", 50, <<"Bob">>, <<"yo">>, 0),
      WALine("msg", 100, <<"Alice">>, <<"<", "Media", " ", "omitted", ">">>, 1),
      WALine("msg", 50, <<"System">>, <<"hi">>, 1),
      WALine("msg", 50, <<" ">>, <<"hi">>, 3),
      WALine("other", 0, <<>>, <<"more">>, 0),
      WALine("other", 0, <<>>, <<"removed">>, 0),
      WALine("other", 0, <<>>, <<"1/1/24,", " ", "10:00">>, 1),
      WALine("blank", 0, <<>>, <<>>, 0) }

\* other names are tried on the one-line files only
TextFiles ==
    { [name |-> <<"chat", "TXT">>, kind |-> "text", body |-> b] :
        b \in SeqsUpTo(WALines, MaxLines) }
    \cup { [name |-> n, kind |-> "text", body |-> b] :
             n \in { <<"chat", "txt">>, <<"chat", "log">>, <<"txt">> },
             b \in SeqsUpTo(WALines, 1) }

CSVHeaders ==
    { <<"id", "timestamp", "sender", "message">>,
      <<"id", "text", "Sender", "date">>,
      <<"timestamp", "sender", "message">>,
      <<"id", "sender", "message">> }

IdCell == Cell(<<"7">>, NaN, FALSE)

CSVRows ==
    { <<IdCell, Cell(<<"2024-01-02 10:00">>, 100, TRUE), Cell(<<"Alice">>, NaN, FALSE), Cell(<<"hi">>, NaN, FALSE)>>,
      <<IdCell, Cell(<<"2024-01-01 10:00">>, 50, TRUE), Cell(<<"Bob">>, NaN, FALSE), Cell(<<"yo">>, NaN, FALSE)>>,
      <<IdCell, Cell(<<"13/01/2024 10:00">>, NaN, TRUE), Cell(<<"Alice">>, NaN, FALSE), Cell(<<"hi">>, NaN, FALSE)>>,
      <<IdCell, Cell(<<"soon">>, NaN, FALSE), Cell(<<"Bob">>, NaN, FALSE), Cell(<<"yo">>, NaN, FALSE)>>,
      <<IdCell, Cell(<<"2024-01-02 10:00">>, 100, TRUE), Cell(<<>>, NaN, FALSE), Cell(<<"hi">>, NaN, FALSE)>>,
      <<IdCell, Cell(<<"2024-01-02 10:00">>, 100, TRUE)>> }

CSVFiles ==
    { [name |-> <<"chat", "csv">>, kind |-> "csv", body |-> <<>>] }
    \cup { [name |-> <<"chat", "csv">>, kind |-> "csv", body |-> <<h>> \o rows] :
             h \in CSVHeaders, rows \in SeqsUpTo(CSVRows, MaxRows) }

NoDateEl == DateEl("none", None, None)

Elements ==
    { Element("service", Some(3 * SecondsPerDay), FALSE, None, None, None, NoDateEl),
      Element("service", Some(1 * SecondsPerDay), FALSE, None, None, None, NoDateEl),
      Element("service", None, TRUE, None, None, None, NoDateEl),
      Element("message", None, TRUE, Some(<<"Alice", "\n", "via", " ", "bot">>), Some(<<"hi">>), None,
              DateEl("title", Some(2 * SecondsPerDay + 10 * SecondsPerHour), Some(<<10, 0>>))),
      Element("message", None, TRUE, Some(<<"Bob">>), Some(<<"yo">>), None,
              DateEl("title", None, Some(<<9, 30>>))),
      Element("message", None, TRUE, None, Some(<<"again">>), None,
              DateEl("text", None, Some(<<9, 30>>))),
      Element("message", None, TRUE, None, None, Some(<<"photo">>), NoDateEl),
      Element("message", None, TRUE, Some(<<" ">>), Some(<<"hm">>), None, NoDateEl),
      Element("other", None, TRUE, None, None, None, NoDateEl) }

HtmlBody(markers, history, chatName, elements) ==
    [markers |-> markers, history |-> history, chatName |-> chatName, elements |-> elements]

\* files without a marker string, and other names, are tried on the
\* one-element documents only
HtmlFiles ==
    { [name |-> <<"messages", "html">>, kind |-> "html",
       body |-> HtmlBody({"page_wrap", "from_name"}, h, None, els)] :
        h \in BOOLEAN, els \in SeqsUpTo(Elements, MaxBlocks) }
    \cup { [name |-> n, kind |-> "html", body |-> HtmlBody(mk, h, cn, els)] :
             n \in { <<"messages2", "htm">>, <<"messages", "xml">> },
             mk \in {{}, {"Telegram"}, {"message default", "Telegram"}}, h \in BOOLEAN,
             cn \in { None, Some(<<" ", "Family">>) },
             els \in SeqsUpTo(Elements, 1) }

Files == TextFiles \cup CSVFiles \cup HtmlFiles

\* ------------------------------------------------------------------ parseFile, step by step

ParseInit ==
    /\ file \in Files
    /\ pc = "start"
    /\ idx = 0
    /\ messages = <<>>
    /\ currentMessage = None
    /\ currentDate = 0
    /\ lastSender = None
    /\ parsed = None
    /\ error = None

ParseOff ==
    /\ file = None
    /\ pc = "off"
    /\ idx = 0
    /\ messages = <<>>
    /\ currentMessage = None
    /\ currentDate = 0
    /\ lastSender = None
    /\ parsed = None
    /\ error = None

ParseFrame == UNCHANGED <<lineVars, mergeVars, analysisVars, appVars, envVars>>

Throw(class) ==
    /\ pc' = "failed"
    /\ error' = Some(class)
    /\ parsed' = None

Return(msgs, format, chatName) ==
    /\ pc' = "done"
    /\ parsed' = Some([messages |-> msgs, metadata |-> metadataOf(msgs, format, chatName)])
    /\ error' = None

\* parseFile: detectFileType and the dispatch
ParseFile ==
    /\ pc = "start"
    /\ LET fileType == detectFileType(file)
       IN IF fileType = "unknown"
          THEN Throw("unsupported") /\ UNCHANGED currentDate
          ELSE /\ pc' = IF fileType = "whatsapp" THEN "whatsapp"
                        ELSE IF fileType = "csv" THEN "csv_header"
                        ELSE IF file.body.history THEN "telegram" ELSE "alternative"
               /\ currentDate' = IF fileType = "telegram" THEN clock ELSE currentDate
               /\ UNCHANGED <<parsed, error>>
    /\ UNCHANGED <<file, idx, messages, currentMessage, lastSender>>
    /\ ParseFrame

\* parseWhatsApp: one iteration of the loop over the lines
WhatsAppLine ==
    /\ pc = "whatsapp"
    /\ idx < Len(file.body)
    /\ idx' = idx + 1
    /\ LET line == file.body[idx + 1]
       IN IF line.kind = "blank"
          THEN UNCHANGED <<messages, currentMessage>>
          ELSE IF line.kind = "msg"
               THEN /\ messages' = pushCurrent(messages, currentMessage)
                    /\ currentMessage' = openMessage(line)
               ELSE /\ messages' = messages
                    /\ currentMessage' = appendContinuation(currentMessage, line.text)
    /\ UNCHANGED <<file, pc, currentDate, lastSender, parsed, error>>
    /\ ParseFrame

\* parseWhatsApp: after the loop
WhatsAppFinish ==
    /\ pc = "whatsapp"
    /\ idx = Len(file.body)
    /\ messages' = whatsAppMessages(messages, currentMessage)
    /\ IF pushCurrent(messages, currentMessage) = <<>>
       THEN Throw("no_messages")
       ELSE Return(messages', "whatsapp", None)
    /\ currentMessage' = None
    /\ UNCHANGED <<file, idx, currentDate, lastSender>>
    /\ ParseFrame

\* parseCSV: the line count and header checks
CSVHeader ==
    /\ pc = "csv_header"
    /\ IF Len(file.body) < 2
       THEN Throw("csv_empty")
       ELSE IF columnsMissing(mapColumns(file.body[1]))
            THEN Throw("csv_columns")
            ELSE pc' = "csv" /\ UNCHANGED <<parsed, error>>
    /\ idx' = 1
    /\ UNCHANGED <<file, messages, currentMessage, currentDate, lastSender>>
    /\ ParseFrame

\* parseCSV: one data row
CSVRow ==
    /\ pc = "csv"
    /\ idx < Len(file.body)
    /\ idx' = idx + 1
    /\ LET m == rowMessage(file.body[idx + 1], mapColumns(file.body[1]))
       IN messages' = IF m = None THEN messages ELSE Append(messages, m[1])
    /\ UNCHANGED <<file, pc, currentMessage, currentDate, lastSender, parsed, error>>
    /\ ParseFrame

\* parseCSV: after the rows
CSVFinish ==
    /\ pc = "csv"
    /\ idx = Len(file.body)
    /\ IF messages = <<>>
       THEN Throw("no_messages") /\ UNCHANGED messages
       ELSE \E sorted \in csvSortOutcomes(messages) :
               messages' = sorted /\ Return(sorted, "csv", None)
    /\ UNCHANGED <<file, idx, currentMessage, currentDate, lastSender>>
    /\ ParseFrame

\* parseTelegramExport: one child of the .history element
TelegramChild ==
    /\ pc = "telegram"
    /\ idx < Len(file.body.elements)
    /\ idx' = idx + 1
    /\ LET el == file.body.elements[idx + 1]
           msgData == parseDefaultMessage(el, currentDate, lastSender, tz)
       IN IF el.cls = "service"
          THEN /\ currentDate' = IF el.date # None THEN el.date[1] ELSE currentDate
               /\ UNCHANGED <<messages, lastSender>>
          ELSE IF el.cls = "message" /\ msgData # None
               THEN /\ messages' = Append(messages, msgData[1])
                    /\ lastSender' = Some(msgData[1].sender)
                    /\ currentDate' = IF msgData[1].extractedDate # None
                                      THEN msgData[1].extractedDate[1] ELSE currentDate
               ELSE UNCHANGED <<messages, lastSender, currentDate>>
    /\ UNCHANGED <<file, pc, currentMessage, parsed, error>>
    /\ ParseFrame

\* parseTelegramExport: after the loop
TelegramFinish ==
    /\ pc = "telegram"
    /\ idx = Len(file.body.elements)
    /\ messages' = telegramMessages(messages)
    /\ Return(messages', "telegram", Some(chatNameOf(file.body)))
    /\ UNCHANGED <<file, idx, currentMessage, currentDate, lastSender>>
    /\ ParseFrame

\* parseAlternativeFormat: one div of the document
AlternativeDiv ==
    /\ pc = "alternative"
    /\ idx < Len(file.body.elements)
    /\ idx' = idx + 1
    /\ LET div == file.body.elements[idx + 1]
           m == alternativeMessage(div, currentDate)
       IN IF isDateHeader(div)
          THEN currentDate' = div.date[1] /\ UNCHANGED messages
          ELSE /\ messages' = IF m = None THEN messages ELSE Append(messages, m[1])
               /\ UNCHANGED currentDate
    /\ UNCHANGED <<file, pc, currentMessage, lastSender, parsed, error>>
    /\ ParseFrame

\* parseAlternativeFormat: after the scan
AlternativeFinish ==
    /\ pc = "alternative"
    /\ idx = Len(file.body.elements)
    /\ messages' = alternativeMessages(messages)
    /\ Return(messages', "telegram", None)
    /\ UNCHANGED <<file, idx, currentMessage, currentDate, lastSender>>
    /\ ParseFrame

ParseNext ==
    \/ ParseFile
    \/ WhatsAppLine
    \/ WhatsAppFinish
    \/ CSVHeader
    \/ CSVRow
    \/ CSVFinish
    \/ TelegramChild
    \/ TelegramFinish
    \/ AlternativeDiv
    \/ AlternativeFinish

\* ------------------------------------------------------------------ mergeTelegramResults

RECURSIVE concatMessages(_)
concatMessages(rs) ==
    IF rs = <<>> THEN <<>>
    ELSE concatMessages(SubSeq(rs, 1, Len(rs) - 1)) \o rs[Len(rs)].messages

RECURSIVE concatParticipants(_)
concatParticipants(rs) ==
    IF rs = <<>> THEN <<>>
    ELSE concatParticipants(SubSeq(rs, 1, Len(rs) - 1)) \o rs[Len(rs)].metadata.participants

\* mutant: a name once taken is kept
RECURSIVE mergedChatName_KeepFirst(_)
mergedChatName_KeepFirst(rs) ==
    IF rs = <<>> THEN DefaultChatName
    ELSE LET name == rs[1].metadata.chatName
         IN IF name # None /\ name[1] # <<>> /\ name[1] # DefaultChatName
            THEN name[1]
            ELSE mergedChatName_KeepFirst(Tail(rs))

\* chatName after the forEach: every non-default name overwrites it
RECURSIVE mergedChatName(_)
mergedChatName(rs) ==
    IF rs = <<>> THEN DefaultChatName
    ELSE LET name == rs[Len(rs)].metadata.chatName
         IN IF name # None /\ name[1] # <<>> /\ name[1] # DefaultChatName
            THEN name[1]
            ELSE mergedChatName(SubSeq(rs, 1, Len(rs) - 1))

\* mutant: the sort after the concatenation is forgotten
mergedMessages_Unsorted(rs) == concatMessages(rs)

\* allMessages after the sort
mergedMessages(rs) == sortByTimestamp(concatMessages(rs))

mergeTelegramResults(rs) ==
    LET allMessages == mergedMessages(rs)
    IN [messages |-> allMessages,
        metadata |-> [format |-> "telegram",
                      totalMessages |-> Len(allMessages),
                      participants |-> Unique(concatParticipants(rs)),
                      chatName |-> Some(mergedChatName(rs))]]

TgMessage(t, sender, text) ==
    [timestamp |-> t, sender |-> sender, text |-> text, extractedDate |-> None]

\* message arrays of the files of an export
FileMessages ==
    LET a1 == TgMessage(10, <<"Alice">>, <<"hi">>)
        b1 == TgMessage(10, <<"Bob">>, <<"yo">>)
        a2 == TgMessage(20, <<"Alice">>, <<"hi">>)
        b2 == TgMessage(20, <<"Bob">>, <<"yo">>)
    IN { <<>>, <<a1>>, <<b1>>, <<a2>>, <<a1, b2>>, <<b1, a1>>, <<a2, a1>> }

FileChatNames == { Some(DefaultChatName), Some(<<"Family">>), Some(<<"Work">>) }

FileResults ==
    { [messages |-> ms, metadata |-> metadataOf(ms, "telegram", cn)] :
        ms \in FileMessages, cn \in FileChatNames }

MergeInit ==
    /\ results \in SeqsUpTo(FileResults, MaxFiles)
    /\ merged = None

MergeOff ==
    /\ results = <<>>
    /\ merged = None

\* handleZipFile: merged = mergeTelegramResults(results)
Merge ==
    /\ pc = "off"
    /\ merged = None
    /\ merged' = Some(mergeTelegramResults(results))
    /\ UNCHANGED <<results, parseVars, lineVars, analysisVars, appVars, envVars>>

\* ------------------------------------------------------------------ analyzers

Message(t, sender, text) == [timestamp |-> t, sender |-> sender, text |-> text]

SenderSet(msgs) == {msgs[i].sender : i \in 1..Len(msgs)}

\* ---- analyzeResponseTiming

RESPONSE_CAP_MINUTES == 1440

\* mutant: the same-sender test is dropped
isResponse_AnySender(previous, current) ==
    LET responseTime == current.timestamp - previous.timestamp
    IN responseTime <= RESPONSE_CAP_MINUTES * SecondsPerMinute /\ responseTime >= 0

\* messages[i] is recorded as a response to messages[i - 1]
isResponse(previous, current) ==
    /\ current.sender # previous.sender
    /\ LET responseTime == current.timestamp - previous.timestamp
       IN responseTime <= RESPONSE_CAP_MINUTES * SecondsPerMinute /\ responseTime >= 0

\* responseTimes[sender] after the loop has handled messages[2..i]
\* (time is kept in seconds: the code's minutes are time / 60)
RECURSIVE responseTimesOf(_, _, _)
responseTimesOf(msgs, sender, i) ==
    IF i < 2 THEN <<>>
    ELSE LET before == responseTimesOf(msgs, sender, i - 1)
         IN IF msgs[i].sender = sender /\ isResponse(msgs[i - 1], msgs[i])
            THEN Append(before, [time |-> msgs[i].timestamp - msgs[i - 1].timestamp,
                                 timestamp |-> msgs[i].timestamp,
                                 sender |-> sender])
            ELSE before

\* the senders in the order of [...new Set(...)].sort()
NameOrder == << <<"Alice">>, <<"Bob">>, <<"Carol">> >>

RECURSIVE sortedSendersFrom(_, _)
sortedSendersFrom(msgs, k) ==
    IF k > Len(NameOrder) THEN <<>>
    ELSE (IF NameOrder[k] \in SenderSet(msgs) THEN <<NameOrder[k]>> ELSE <<>>)
         \o sortedSendersFrom(msgs, k + 1)

sortedSenders(msgs) == sortedSendersFrom(msgs, 1)

\* allResponses before the sort: sender by sender
RECURSIVE collectResponses(_, _)
collectResponses(msgs, senders) ==
    IF senders = <<>> THEN <<>>
    ELSE responseTimesOf(msgs, Head(senders), Len(msgs)) \o collectResponses(msgs, Tail(senders))

RECURSIVE SumOfTimes(_)
SumOfTimes(responses) ==
    IF responses = <<>> THEN 0 ELSE Head(responses).time + SumOfTimes(Tail(responses))

Abs(x) == IF x < 0 THEN -x ELSE x

RECURSIVE gcd(_, _)
gcd(a, b) == IF b = 0 THEN a ELSE gcd(b, a % b)

Min(a, b) == IF a <= b THEN a ELSE b
Max(a, b) == IF a >= b THEN a ELSE b

\* numPeriods and periodSize for n recorded responses
numPeriodsOf(n) == Min(10, Max(3, n \div 5))

\* mutant: Math.floor in the place of Math.ceil
periodSizeOf_Floor(n) == n \div numPeriodsOf(n)

periodSizeOf(n) == (n + numPeriodsOf(n) - 1) \div numPeriodsOf(n)

\* allResponses.slice(start, end), start and end counted from 0
slice(list, start, end) ==
    IF start >= Min(end, Len(list)) THEN <<>> ELSE SubSeq(list, start + 1, Min(end, Len(list)))

\* `periods` after the loop has run for i = 0 .. upTo - 1; a period keeps the
\* sum and the number of its response times: overallAvg is sum / count seconds
RECURSIVE periodsUpTo(_, _)
periodsUpTo(allResponses, upTo) ==
    IF upTo = 0 THEN <<>>
    ELSE LET i == upTo - 1
             periodSize == periodSizeOf(Len(allResponses))
             periodResponses ==
                 slice(allResponses, i * periodSize,
                       Min((i + 1) * periodSize, Len(allResponses)))
             before == periodsUpTo(allResponses, upTo - 1)
         IN IF Len(periodResponses) > 0
            THEN Append(before, [label |-> i + 1,
                                 sum |-> SumOfTimes(periodResponses),
                                 count |-> Len(periodResponses)])
            ELSE before

periodsOf(allResponses) == periodsUpTo(allResponses, numPeriodsOf(Len(allResponses)))

\* Math.round(minutes * 10) / 10 for an average of sum / count seconds, in
\* tenths of a minute
roundTenthsOfMinutes(sum, count) == (2 * sum + 6 * count) \div (12 * count)

\* the sum of the periods' overallAvg as a fraction num / den (seconds) over
\* the least common denominator
RECURSIVE sumOfAverages(_)
sumOfAverages(periods) ==
    IF periods = <<>> THEN [num |-> 0, den |-> 1]
    ELSE LET rest == sumOfAverages(Tail(periods))
             p == Head(periods)
             common == gcd(p.count, rest.den)
         IN [num |-> p.sum * (rest.den \div common) + rest.num * (p.count \div common),
             den |-> (p.count \div common) * rest.den]

\* the trend of the two halves of `periods`
responseTrendOf(periods) ==
    IF Len(periods) < 2 THEN "stable"
    ELSE LET half == Len(periods) \div 2
             first == sumOfAverages(slice(periods, 0, half))
             second == sumOfAverages(slice(periods, half, Len(periods)))
             \* firstHalfAvg = first / half, secondHalfAvg = second / (length - half)
             firstDen == first.den * half
             secondDen == second.den * (Len(periods) - half)
         IN IF 2 * second.num * firstDen > 3 * first.num * secondDen THEN "slowing"
            ELSE IF 10 * second.num * firstDen < 7 * first.num * secondDen THEN "quickening"
            ELSE "stable"

\* `responses` is the local allResponses, kept for the properties
analyzeResponseTiming(msgs) ==
    IF Len(msgs) < 2
    THEN [labels |-> <<>>, datasets |-> <<>>, responses |-> <<>>, statistics |-> None]
    ELSE LET senders == sortedSenders(msgs)
             allResponses == sortByTimestamp(collectResponses(msgs, senders))
             periods == periodsOf(allResponses)
         IN [labels |-> [k \in 1..Len(periods) |-> periods[k].label],
             datasets |->
                 <<[data |-> [k \in 1..Len(periods) |->
                                 roundTenthsOfMinutes(periods[k].sum, periods[k].count)]]>>,
             responses |-> allResponses,
             statistics |->
                 Some([overallAvgMinutes |->
                           IF Len(allResponses) > 0
                           THEN roundTenthsOfMinutes(SumOfTimes(allResponses), Len(allResponses))
                           ELSE 0,
                       senderStats |->
                           [sn \in SenderSet(msgs) |->
                               LET times == responseTimesOf(msgs, sn, Len(msgs))
                               IN [avg |-> IF Len(times) > 0
                                           THEN roundTenthsOfMinutes(SumOfTimes(times), Len(times))
                                           ELSE 0,
                                   count |-> Len(times)]],
                       trend |-> responseTrendOf(periods),
                       totalResponses |-> Len(allResponses)])]

\* ---- analyzeInitiationBalance

\* Math.round(part / total * 100) for 0 <= part and 0 < total
roundPercent(part, total) == (200 * part + total) \div (2 * total)

CONVERSATION_GAP_HOURS == 4

gapThreshold == CONVERSATION_GAP_HOURS * SecondsPerHour

\* mutant: a gap of exactly the threshold does not count
startsConversation_Strict(previous, current) ==
    current.timestamp - previous.timestamp > gapThreshold

\* the gap test of the loop
startsConversation(previous, current) ==
    current.timestamp - previous.timestamp >= gapThreshold

\* initiations[sender] after the loop has handled messages[1..i]
RECURSIVE initiationsOf(_, _, _)
initiationsOf(msgs, sender, i) ==
    IF i = 1 THEN (IF msgs[1].sender = sender THEN 1 ELSE 0)
    ELSE initiationsOf(msgs, sender, i - 1)
         + (IF msgs[i].sender = sender /\ startsConversation(msgs[i - 1], msgs[i])
            THEN 1 ELSE 0)

RECURSIVE SumOver(_, _)
SumOver(f, keys) ==
    IF keys = <<>> THEN 0 ELSE f[Head(keys)] + SumOver(f, Tail(keys))

\* Math.abs(percentages[senders[0]] - percentages[senders[1]]): with a single
\* sender senders[1] is undefined, and a number minus undefined is NaN
differenceOf(percentages, senders) ==
    IF Len(senders) < 2 THEN NotANumber
    ELSE LET d == percentages[senders[1]] - percentages[senders[2]]
         IN Finite(IF d < 0 THEN -d ELSE d)

\* mutant: a difference of exactly 10 or 25 points falls into the next class
balanceOf_Below(diff) ==
    IF IsFinite(diff) /\ diff[2] < 10 THEN "balanced"
    ELSE IF IsFinite(diff) /\ diff[2] < 25 THEN "slightly_unbalanced"
    ELSE "unbalanced"

\* the if / else if / else on diff: every comparison with NaN is false
balanceOf(diff) ==
    IF IsFinite(diff) /\ diff[2] <= 10 THEN "balanced"
    ELSE IF IsFinite(diff) /\ diff[2] <= 25 THEN "slightly_unbalanced"
    ELSE "unbalanced"

\* initiations[senders[0]] > initiations[senders[1]]: false against undefined
firstInitiatesMore(initiations, senders) ==
    Len(senders) >= 2 /\ initiations[senders[1]] > initiations[senders[2]]

\* senders[k] of the JavaScript array (k from 0): None is undefined
senderAt(senders, k) == IF k + 1 <= Len(senders) THEN Some(senders[k + 1]) ELSE None

analyzeInitiationBalance(msgs) ==
    IF Len(msgs) < 2
    THEN [labels |-> <<>>, data |-> <<>>, statistics |-> None]
    ELSE LET senders == sortedSenders(msgs)
             initiations == [sn \in SenderSet(msgs) |-> initiationsOf(msgs, sn, Len(msgs))]
             totalInitiations == SumOver(initiations, senders)
             percentages ==
                 [sn \in SenderSet(msgs) |->
                     IF totalInitiations > 0
                     THEN roundPercent(initiations[sn], totalInitiations) ELSE 0]
             diff == differenceOf(percentages, senders)
             firstMore == firstInitiatesMore(initiations, senders)
         IN [labels |-> senders,
             data |-> [k \in 1..Len(senders) |-> initiations[senders[k]]],
             statistics |-> Some([total |-> totalInitiations,
                                  counts |-> initiations,
                                  percentages |-> percentages,
                                  balance |-> balanceOf(diff),
                                  moreInitiator |-> senderAt(senders, IF firstMore THEN 0 ELSE 1),
                                  lessInitiator |-> senderAt(senders, IF firstMore THEN 1 ELSE 0),
                                  difference |-> diff])]

\* ---- analyzeStreaks

\* date.toISOString().split('T')[0]: the UTC calendar day, as a day number
utcDay(t) == t \div SecondsPerDay

activeDates(msgs) == {utcDay(msgs[i].timestamp) : i \in 1..Len(msgs)}

\* [...activeDates].sort()
RECURSIVE sortedDatesOf(_)
sortedDatesOf(days) ==
    IF days = {} THEN <<>>
    ELSE LET first == CHOOSE d \in days : \A e \in days : d <= e
         IN <<first>> \o sortedDatesOf(days \ {first})

\* the loop over sortedDates[2..i]: <<streaks closed so far, currentStreak, streakStart>>
RECURSIVE streakLoop(_, _)
streakLoop(dates, i) ==
    IF i = 1 THEN <<<<>>, 1, dates[1]>>
    ELSE LET before == streakLoop(dates, i - 1)
             diffDays == dates[i] - dates[i - 1]
         IN IF diffDays = 1
            THEN <<before[1], before[2] + 1, before[3]>>
            ELSE <<Append(before[1], [start |-> before[3], end |-> dates[i - 1],
                                      length |-> before[2]]),
                   1, dates[i]>>

\* mutant: the streak that is still open after the loop is not pushed
streaksOf_NoLast(dates) == streakLoop(dates, Len(dates))[1]

\* `streaks` after the final push
streaksOf(dates) ==
    LET loop == streakLoop(dates, Len(dates))
    IN Append(loop[1], [start |-> loop[3], end |-> dates[Len(dates)], length |-> loop[2]])

RECURSIVE maxLength(_)
maxLength(streaks) ==
    IF streaks = <<>> THEN 0
    ELSE LET rest == maxLength(Tail(streaks))
         IN IF Head(streaks).length >= rest THEN Head(streaks).length ELSE rest

\* daysSinceLastMessage: `today` and `lastDate` both moved to local midnight
daysSinceLastMessage(lastDay, now, zone) ==
    (LocalMidnight(now, zone) - LocalMidnight(lastDay * SecondsPerDay, zone)) \div SecondsPerDay

SelectLong(streaks) == SelectSeq(streaks, LAMBDA st : st.length >= 3)

\* analyzeStreaks(messages); `now` is what new Date() returns inside it
analyzeStreaks(msgs, now, zone) ==
    IF msgs = <<>>
    THEN [longestStreak |-> 0, currentStreak |-> 0, totalActiveDays |-> 0,
          streakHistory |-> <<>>]
    ELSE LET sortedDates == sortedDatesOf(activeDates(msgs))
             streaks == streaksOf(sortedDates)
             isStreakActive ==
                 daysSinceLastMessage(sortedDates[Len(sortedDates)], now, zone) <= 1
         IN [longestStreak |-> maxLength(streaks),
             currentStreak |-> IF isStreakActive THEN streaks[Len(streaks)].length ELSE 0,
             isStreakActive |-> isStreakActive,
             totalActiveDays |-> Len(sortedDates),
             totalSpanDays |-> sortedDates[Len(sortedDates)] - sortedDates[1] + 1,
             streaks |-> streaks,
             streakHistory |-> SelectLong(streaks)]

\* ---- inputs of the analyzers

Alice == <<"Alice">>
Bob == <<"Bob">>
Carol == <<"Carol">>

MessagesAt(times, senders) == {Message(t, sn, <<"hi">>) : t \in times, sn \in senders}

ResponseTimes ==
    {0, SecondsPerMinute, SecondsPerDay + SecondsPerMinute, SecondsPerDay + SecondsPerMinute + 1}

ResponseInputs == SeqsUpTo(MessagesAt(ResponseTimes, {Alice, Bob, Carol}), MaxResponseMessages)

InitiationTimes == {0, 1, SecondsPerHour, 4 * SecondsPerHour, 10 * SecondsPerHour}

InitiationInputs == SeqsUpTo(MessagesAt(InitiationTimes, {Alice, Bob}), MaxInitiationMessages)

StreakTimes ==
    { 10 * SecondsPerHour,
      SecondsPerDay + 10 * SecondsPerHour,
      2 * SecondsPerDay + 23 * SecondsPerHour,
      9 * SecondsPerDay + SecondsPerHour }

StreakInputs == SeqsUpTo(MessagesAt(StreakTimes, {Alice}), MaxStreakMessages)

StreakClocks ==
    { 2 * SecondsPerDay + 12 * SecondsPerHour,
      9 * SecondsPerDay + 2 * SecondsPerHour,
      10 * SecondsPerDay + 12 * SecondsPerHour,
      11 * SecondsPerDay + 12 * SecondsPerHour }

TimeZones == {0, -5 * SecondsPerHour, 7 * SecondsPerHour}

\* ---- the calls

AnalyzeFrame == UNCHANGED <<filteredMessages, stNow, parseVars, lineVars, mergeVars, appVars, envVars>>

AnalyzeResponseTiming ==
    /\ analysisResults = None
    /\ analysisResults' = Some(analyzeResponseTiming(filteredMessages))
    /\ AnalyzeFrame

AnalyzeInitiationBalance ==
    /\ analysisResults = None
    /\ analysisResults' = Some(analyzeInitiationBalance(filteredMessages))
    /\ AnalyzeFrame

AnalyzeStreaks ==
    /\ analysisResults = None
    /\ analysisResults' = Some(analyzeStreaks(filteredMessages, clock, tz))
    /\ AnalyzeFrame

\* ---- analyzePeakHours

\* date.getHours(): the hour of the local day
getHours(t, zone) == ((t + zone) % SecondsPerDay) \div SecondsPerHour

\* date.getDay(): 0 is Sunday; day 0 of the epoch is a Thursday
getDay(t, zone) == (((t + zone) \div SecondsPerDay) + 4) % 7

dayNamesEN == <<"Sunday", "Monday", "Tuesday", "Wednesday", "Thursday", "Friday", "Saturday">>

\* formatHour(hour), for the hours 0..23
formatHour(hour) ==
    <<"00:00", "01:00", "02:00", "03:00", "04:00", "05:00", "06:00", "07:00",
      "08:00", "09:00", "10:00", "11:00", "12:00", "13:00", "14:00", "15:00",
      "16:00", "17:00", "18:00", "19:00", "20:00", "21:00", "22:00", "23:00">>[hour + 1]

CountWhere(msgs, Test(_)) == Cardinality({i \in 1..Len(msgs) : Test(msgs[i])})

\* hourCounts and dayCounts after the forEach (0-based arrays as functions)
hourCountsOf(msgs, zone) ==
    [hour \in 0..23 |-> CountWhere(msgs, LAMBDA m : getHours(m.timestamp, zone) = hour)]

dayCountsOf(msgs, zone) ==
    [day \in 0..6 |-> CountWhere(msgs, LAMBDA m : getDay(m.timestamp, zone) = day)]

\* heatmapData: 168 cells, day-major
heatmapDataOf(msgs, zone) ==
    [k \in 1..168 |->
        LET day == (k - 1) \div 24
            hour == (k - 1) % 24
        IN [day |-> day, hour |-> hour,
            count |-> CountWhere(msgs, LAMBDA m : getDay(m.timestamp, zone) = day
                                                  /\ getHours(m.timestamp, zone) = hour)]]

\* counts.indexOf(Math.max(...counts)): the first index that holds the maximum
indexOfMax(counts, last) ==
    CHOOSE i \in 0..last :
        /\ \A j \in 0..last : counts[j] <= counts[i]
        /\ \A j \in 0..(i - 1) : counts[j] < counts[i]

\* counts.slice(from, to).reduce((a, b) => a + b, 0)
RECURSIVE sliceSum(_, _, _)
sliceSum(counts, from, to) ==
    IF from >= to THEN 0 ELSE counts[from] + sliceSum(counts, from + 1, to)

\* mutant: the evening bucket starts at 14
timeOfDayOf_EarlyEvening(hourCounts) ==
    [pagi |-> sliceSum(hourCounts, 6, 12),
     siang |-> sliceSum(hourCounts, 12, 14),
     malam |-> sliceSum(hourCounts, 14, 22),
     larut |-> sliceSum(hourCounts, 22, 24) + sliceSum(hourCounts, 0, 6)]

timeOfDayOf(hourCounts) ==
    [pagi |-> sliceSum(hourCounts, 6, 12),
     siang |-> sliceSum(hourCounts, 12, 17),
     malam |-> sliceSum(hourCounts, 17, 22),
     larut |-> sliceSum(hourCounts, 22, 24) + sliceSum(hourCounts, 0, 6)]

analyzePeakHours(msgs, zone) ==
    IF msgs = <<>>
    THEN [heatmapData |-> <<>>, peakHour |-> None, peakDay |-> None, perSender |-> <<>>]
    ELSE LET hourCounts == hourCountsOf(msgs, zone)
             dayCounts == dayCountsOf(msgs, zone)
             peakHourIndex == indexOfMax(hourCounts, 23)
             peakDayIndex == indexOfMax(dayCounts, 6)
             timeOfDay == timeOfDayOf(hourCounts)
             totalTimeOfDay == timeOfDay.pagi + timeOfDay.siang + timeOfDay.malam + timeOfDay.larut
         IN [heatmapData |-> heatmapDataOf(msgs, zone),
             hourCounts |-> hourCounts,
             dayCounts |-> dayCounts,
             peakHour |-> Some(peakHourIndex),
             peakHourLabel |-> formatHour(peakHourIndex),
             peakDay |-> Some(peakDayIndex),
             peakDayLabelEN |-> dayNamesEN[peakDayIndex + 1],
             perSender |->
                 [sn \in SenderSet(msgs) |->
                     LET hours == hourCountsOf(SelectSeq(msgs, LAMBDA m : m.sender = sn), zone)
                     IN [peakHour |-> indexOfMax(hours, 23),
                         peakHourLabel |-> formatHour(indexOfMax(hours, 23)),
                         hourDistribution |-> hours]],
             timeOfDay |-> timeOfDay,
             timeOfDayPercent |->
                 [pagi |-> roundPercent(timeOfDay.pagi, totalTimeOfDay),
                  siang |-> roundPercent(timeOfDay.siang, totalTimeOfDay),
                  malam |-> roundPercent(timeOfDay.malam, totalTimeOfDay),
                  larut |-> roundPercent(timeOfDay.larut, totalTimeOfDay)]]

\* Tuesday 14:00 and 14:30, Tuesday 23:00, Wednesday 05:00, the next Tuesday 14:00
PeakTimes ==
    { 5 * SecondsPerDay + 14 * SecondsPerHour,
      5 * SecondsPerDay + 14 * SecondsPerHour + 30 * SecondsPerMinute,
      5 * SecondsPerDay + 23 * SecondsPerHour,
      6 * SecondsPerDay + 5 * SecondsPerHour,
      12 * SecondsPerDay + 14 * SecondsPerHour }

PeakMessages ==
    MessagesAt(PeakTimes, {Alice})
    \cup {Message(5 * SecondsPerDay + 14 * SecondsPerHour, Bob, <<"hi">>)}

PeakInputs == SeqsUpTo(PeakMessages, MaxPeakMessages)

AnalyzePeakHours ==
    /\ analysisResults = None
    /\ analysisResults' = Some(analyzePeakHours(filteredMessages, tz))
    /\ AnalyzeFrame

\* ---- analyzeEmojiUsage

\* Characters are named by code point.  emojiRegex matches, among others, the
\* dingbats U+2700..U+27BF and any surrogate pair, that is any character
\* above U+FFFF (a skin-tone modifier is such a character and is a match of
\* its own); it does not match the variation selector U+FE0F.
BmpEmojiChars == {"U+2764", "U+2B50"}
AstralChars == {"U+1F600", "U+1F44D", "U+1F3FD"}

matchesEmojiRegex(c) == c \in BmpEmojiChars \cup AstralChars

\* mutant: an emoji repeated in one message is reported once
extractEmojis_Distinct(text) == Unique(SelectSeq(text, matchesEmojiRegex))

\* text.match(emojiRegex) || []
extractEmojis(text) == SelectSeq(text, matchesEmojiRegex)

\* the emojis of all messages, in the order the forEach meets them
RECURSIVE allEmojisOf(_)
allEmojisOf(msgs) ==
    IF msgs = <<>> THEN <<>>
    ELSE allEmojisOf(SubSeq(msgs, 1, Len(msgs) - 1)) \o extractEmojis(msgs[Len(msgs)].text)

\* a counting table { emoji: count } built from a sequence of emojis
tableOf(emojis) ==
    [e \in {emojis[k] : k \in 1..Len(emojis)} |->
        Cardinality({k \in 1..Len(emojis) : emojis[k] = e})]

\* entries.sort((a, b) => b[1] - a[1]): stable, larger counts first
RECURSIVE insertByCount(_, _)
insertByCount(sorted, entry) ==
    IF sorted = <<>> THEN <<entry>>
    ELSE IF sorted[Len(sorted)].count >= entry.count THEN Append(sorted, entry)
    ELSE Append(insertByCount(SubSeq(sorted, 1, Len(sorted) - 1), entry), sorted[Len(sorted)])

RECURSIVE sortByCount(_)
sortByCount(entries) ==
    IF entries = <<>> THEN <<>>
    ELSE insertByCount(sortByCount(SubSeq(entries, 1, Len(entries) - 1)), entries[Len(entries)])

\* Object.entries(table).sort(...).slice(0, n).map(...): keys in insertion order
topEmojisOf(emojis, n) ==
    LET keys == Unique(emojis)
        table == tableOf(emojis)
        sorted == sortByCount([k \in 1..Len(keys) |-> [emoji |-> keys[k], count |-> table[keys[k]]]])
    IN SubSeq(sorted, 1, IF Len(sorted) < n THEN Len(sorted) ELSE n)

messagesOf(msgs, sender) == SelectSeq(msgs, LAMBDA m : m.sender = sender)

analyzeEmojiUsage(msgs) ==
    IF msgs = <<>>
    THEN [totalEmojis |-> 0, perSender |-> <<>>, topEmojis |-> <<>>,
          emojiPerMessage |-> 0, hasEmojis |-> FALSE]
    ELSE LET all == allEmojisOf(msgs)
             totalEmojis == Len(all)
             messagesWithEmojis ==
                 Cardinality({i \in 1..Len(msgs) : Len(extractEmojis(msgs[i].text)) > 0})
         IN [totalEmojis |-> totalEmojis,
             messagesWithEmojis |-> messagesWithEmojis,
             percentWithEmojis |-> roundPercent(messagesWithEmojis, Len(msgs)),
             emojiCounts |-> tableOf(all),
             topEmojis |-> topEmojisOf(all, 10),
             perSender |->
                 [sn \in SenderSet(msgs) |->
                     LET own == allEmojisOf(messagesOf(msgs, sn))
                     IN [count |-> Len(own),
                         emojis |-> tableOf(own),
                         topEmojis |-> topEmojisOf(own, 5)]],
             hasEmojis |-> totalEmojis > 0]

EmojiTexts ==
    { <<"hi">>,
      <<"U+1F600">>,
      <<"U+1F600", " ", "U+1F600", "U+2764">>,
      <<"ok", "U+1F44D", "U+1F3FD">>,
      <<"U+2764", "U+FE0F", "!">> }

EmojiInputs ==
    SeqsUpTo({Message(0, sn, text) : sn \in {Alice, Bob}, text \in EmojiTexts}, MaxEmojiMessages)

AnalyzeEmojiUsage ==
    /\ analysisResults = None
    /\ analysisResults' = Some(analyzeEmojiUsage(filteredMessages))
    /\ AnalyzeFrame

\* ---- analyzeMessageActivity

\* The local calendar of the years 1969 to 1971 (no leap year among them);
\* a day is counted from 1 January 1970.
localDay(t, zone) == (t + zone) \div SecondsPerDay

DaysPerYear == 365

DaysBeforeMonth == <<0, 31, 59, 90, 120, 151, 181, 212, 243, 273, 304, 334>>

getFullYear(day) == 1970 + (day \div DaysPerYear)

dayOfYear(day) == day % DaysPerYear

\* getMonth() + 1
monthOf(day) ==
    CHOOSE m \in 1..12 :
        /\ DaysBeforeMonth[m] <= dayOfYear(day)
        /\ m = 12 \/ dayOfYear(day) < DaysBeforeMonth[m + 1]

getDate(day) == dayOfYear(day) - DaysBeforeMonth[monthOf(day)] + 1

\* the key `${year}-${month}-${day}` with both parts padded to two digits,
\* written as the number its digits spell: sorting the numbers is sorting the strings
dayKey(day) == getFullYear(day) * 10000 + monthOf(day) * 100 + getDate(day)

monthKey(day) == getFullYear(day) * 100 + monthOf(day)

getBinKey(t, binType, zone) ==
    CASE binType = "month" -> monthKey(localDay(t, zone))
      [] binType = "week" -> dayKey(localDay(t, zone) - getDay(t, zone))
      [] OTHER -> dayKey(localDay(t, zone))

\* the label of a key: <<day, month>> for `${parts[2]}/${parts[1]}`,
\* <<month, year>> for `${monthNames[...]} ${parts[0]}`
formatBinLabel(key, binType) ==
    IF binType = "month" THEN <<key % 100, key \div 100>>
    ELSE <<key % 100, (key \div 100) % 100>>

\* mutant: the thresholds are taken from 60 and 365 days on
binTypeOf_FromThreshold(msgs) ==
    LET duration == msgs[Len(msgs)].timestamp - msgs[1].timestamp
    IN IF duration >= 365 * SecondsPerDay THEN "month"
       ELSE IF duration >= 60 * SecondsPerDay THEN "week"
       ELSE "day"

binTypeOf(msgs) ==
    LET duration == msgs[Len(msgs)].timestamp - msgs[1].timestamp
    IN IF duration > 365 * SecondsPerDay THEN "month"
       ELSE IF duration > 60 * SecondsPerDay THEN "week"
       ELSE "day"

\* bins[key][sender] and bins[key].total after the loop over the messages
binCount(msgs, key, sender, binType, zone) ==
    Cardinality({i \in 1..Len(msgs) :
                    msgs[i].sender = sender /\ getBinKey(msgs[i].timestamp, binType, zone) = key})

binTotal(msgs, key, binType, zone) ==
    Cardinality({i \in 1..Len(msgs) : getBinKey(msgs[i].timestamp, binType, zone) = key})

RECURSIVE SumOfBins(_, _, _, _)
SumOfBins(msgs, keys, binType, zone) ==
    IF keys = <<>> THEN 0
    ELSE binTotal(msgs, Head(keys), binType, zone) + SumOfBins(msgs, Tail(keys), binType, zone)

\* Math.round(num / den * 10) / 10 in tenths; 0 / 0 is NaN
roundTenths(num, den) ==
    IF den = 0 THEN NotANumber ELSE Finite((20 * num + den) \div (2 * den))

\* the two comparisons of the trend: 1.2 and 0.8 times the first half
activityTrendOf(firstHalfTotal, secondHalfTotal) ==
    IF 5 * secondHalfTotal > 6 * firstHalfTotal THEN "increasing"
    ELSE IF 5 * secondHalfTotal < 4 * firstHalfTotal THEN "decreasing"
    ELSE "stable"

\* analyzeMessageActivity past its guard
messageActivityOf(msgs, zone) ==
    LET binType == binTypeOf(msgs)
        senders == sortedSenders(msgs)
        sortedKeys ==
            sortedDatesOf({getBinKey(msgs[i].timestamp, binType, zone) : i \in 1..Len(msgs)})
        half == Len(sortedKeys) \div 2
        firstHalf == slice(sortedKeys, 0, half)
        secondHalf == slice(sortedKeys, half, Len(sortedKeys))
        firstHalfTotal == SumOfBins(msgs, firstHalf, binType, zone)
        secondHalfTotal == SumOfBins(msgs, secondHalf, binType, zone)
    IN [labels |-> [k \in 1..Len(sortedKeys) |-> formatBinLabel(sortedKeys[k], binType)],
        datasets |->
            [s \in 1..Len(senders) |->
                [label |-> senders[s],
                 data |-> [k \in 1..Len(sortedKeys) |->
                              binCount(msgs, sortedKeys[k], senders[s], binType, zone)]]],
        binType |-> binType,
        \* the local bins[key].total, in the order of sortedKeys, kept for the properties
        totals |-> [k \in 1..Len(sortedKeys) |-> binTotal(msgs, sortedKeys[k], binType, zone)],
        statistics |->
            [totalMessages |-> Len(msgs),
             avgPerBin |-> roundTenths(Len(msgs), Len(sortedKeys)),
             trend |-> activityTrendOf(firstHalfTotal, secondHalfTotal),
             firstHalfAvg |-> roundTenths(firstHalfTotal, Len(firstHalf)),
             secondHalfAvg |-> roundTenths(secondHalfTotal, Len(secondHalf))]]

\* mutant: without the guard, messages[0].timestamp is read off undefined
analyzeMessageActivity_NoGuard(msgs, zone) ==
    IF msgs = <<>> THEN TypeError ELSE messageActivityOf(msgs, zone)

analyzeMessageActivity(msgs, zone) ==
    IF msgs = <<>>
    THEN [labels |-> <<>>, datasets |-> <<>>]
    ELSE messageActivityOf(msgs, zone)

\* ---- analyzeConversationRhythm

\* gaps between consecutive messages, in seconds (the code's minutes are gap / 60)
gapsOf(msgs) == [i \in 1..(Len(msgs) - 1) |-> msgs[i + 1].timestamp - msgs[i].timestamp]

RECURSIVE SumOfGaps(_)
SumOfGaps(gaps) == IF gaps = <<>> THEN 0 ELSE Head(gaps) + SumOfGaps(Tail(gaps))

RECURSIVE SumOfSquares(_)
SumOfSquares(gaps) ==
    IF gaps = <<>> THEN 0 ELSE Head(gaps) * Head(gaps) + SumOfSquares(Tail(gaps))

RECURSIVE insertGap(_, _)
insertGap(sorted, g) ==
    IF sorted = <<>> THEN <<g>>
    ELSE IF g < Head(sorted) THEN <<g>> \o sorted
    ELSE <<Head(sorted)>> \o insertGap(Tail(sorted), g)

\* [...gaps].sort((a, b) => a - b)
RECURSIVE sortGaps(_)
sortGaps(gaps) ==
    IF gaps = <<>> THEN <<>>
    ELSE insertGap(sortGaps(SubSeq(gaps, 1, Len(gaps) - 1)), gaps[Len(gaps)])

\* gaps.slice(-n): the last n gaps, and the whole list for n = 0
lastSlice(list, n) == IF n = 0 THEN list ELSE SubSeq(list, Len(list) - n + 1, Len(list))

RECURSIVE gcdOfGaps(_)
gcdOfGaps(gaps) == IF gaps = <<>> THEN 0 ELSE gcd(Abs(Head(gaps)), gcdOfGaps(Tail(gaps)))

\* cv and the comparisons of the thirds do not change when every gap is
\* divided by the same positive number: the gaps are counted in their largest
\* common unit, which keeps the sums of squares small
inCommonUnit(gaps) ==
    LET unit == IF gcdOfGaps(gaps) = 0 THEN 1 ELSE gcdOfGaps(gaps)
    IN [k \in 1..Len(gaps) |-> gaps[k] \div unit]

\* cv = stdDev / avgGap = sqrt(q) / s for s = sum of the gaps and
\* q = n * (sum of the squared gaps) - s * s, which is never negative.
\* A list that is not in timestamp order has negative gaps: s < 0 gives a
\* cv <= 0, s = 0 with q > 0 gives Infinity, s = 0 with q = 0 gives NaN.
cvSquareNumerator(gaps) == Len(gaps) * SumOfSquares(gaps) - SumOfGaps(gaps) * SumOfGaps(gaps)

\* cv > a / b and cv < a / b for positive a and b; false for the NaN cv
cvGreater(gaps, a, b) ==
    LET s == SumOfGaps(inCommonUnit(gaps))
        q == cvSquareNumerator(inCommonUnit(gaps))
    IN (s > 0 /\ b * b * q > a * a * s * s) \/ (s = 0 /\ q > 0)

cvLess(gaps, a, b) ==
    LET s == SumOfGaps(inCommonUnit(gaps))
        q == cvSquareNumerator(inCommonUnit(gaps))
    IN (s > 0 /\ b * b * q < a * a * s * s) \/ s < 0

\* Math.sqrt, rounded down and rounded up to an integer
RECURSIVE sqrtBetween(_, _, _)
sqrtBetween(x, lo, hi) ==
    IF lo = hi THEN lo
    ELSE LET mid == (lo + hi + 1) \div 2
         IN IF mid * mid <= x THEN sqrtBetween(x, mid, hi) ELSE sqrtBetween(x, lo, mid - 1)

floorSqrt(x) == sqrtBetween(x, 0, 46340)
ceilSqrt(x) == IF floorSqrt(x) * floorSqrt(x) = x THEN floorSqrt(x) ELSE floorSqrt(x) + 1

\* Math.round(num / den) for den # 0: the nearest integer, a half rounded up
roundSigned(num, den) ==
    IF den > 0 THEN (2 * num + den) \div (2 * den)
    ELSE (2 * (-num) + (-den)) \div (2 * (-den))

\* Math.round(scale * sqrt(q) / s) for s > 0, and Math.round(-scale * sqrt(q) / s)
roundScaledRoot(scale, q, s) == (floorSqrt(4 * scale * scale * q) + s) \div (2 * s)
roundNegatedScaledRoot(scale, q, s) == (s - ceilSqrt(4 * scale * scale * q)) \div (2 * s)

PlusInfinity == <<"Infinity">>

\* Math.round(cv * 100) / 100 in hundredths
variabilityCoefficientOf(gaps) ==
    LET s == SumOfGaps(inCommonUnit(gaps))
        q == cvSquareNumerator(inCommonUnit(gaps))
    IN IF s = 0 THEN (IF q = 0 THEN NotANumber ELSE PlusInfinity)
       ELSE IF s > 0 THEN Finite(roundScaledRoot(100, q, s))
       ELSE Finite(roundNegatedScaledRoot(100, q, -s))

\* the if / else if chain on lastThirdAvg, firstThirdAvg and cv; the two
\* thirds have the same length, so their averages compare as their sums
rhythmOf(gaps) ==
    LET thirdLength == Len(gaps) \div 3
        firstThird == slice(gaps, 0, thirdLength)
        lastThird == lastSlice(gaps, thirdLength)
        first == SumOfGaps(firstThird) * Len(lastThird)
        last == SumOfGaps(lastThird) * Len(firstThird)
    IN IF last > 2 * first THEN "slowing"
       ELSE IF cvGreater(gaps, 3, 2) THEN "irregular"
       ELSE IF 2 * last < first THEN "accelerating"
       ELSE IF cvLess(gaps, 4, 5) THEN "stable"
       ELSE "variable"

\* Math.min(0.9, score), in hundredths
cappedConfidence(score) == Min(90, score)

\* Math.round(confidence * 100) / 100 in hundredths, branch by branch; a
\* division by a zero firstThirdAvg gives an infinite ratio, which Math.min
\* caps
confidenceOf(gaps) ==
    LET thirdLength == Len(gaps) \div 3
        firstThird == slice(gaps, 0, thirdLength)
        lastThird == lastSlice(gaps, thirdLength)
        first == SumOfGaps(firstThird) * Len(lastThird)
        last == SumOfGaps(lastThird) * Len(firstThird)
        s == SumOfGaps(inCommonUnit(gaps))
        q == cvSquareNumerator(inCommonUnit(gaps))
        rhythm == rhythmOf(gaps)
    IN IF rhythm = "slowing"
       THEN (IF first = 0 THEN 90
             ELSE cappedConfidence(roundSigned(100 * (last - first), 3 * first)))
       ELSE IF rhythm = "irregular"
       THEN (IF s = 0 THEN 90 ELSE cappedConfidence(roundScaledRoot(50, q, s) - 50))
       ELSE IF rhythm = "accelerating"
       THEN (IF first = 0 THEN 90
             ELSE cappedConfidence(roundSigned(100 * (first - last), first)))
       ELSE IF rhythm = "stable"
       THEN (IF s < 0 THEN 90
             ELSE cappedConfidence(100 + roundNegatedScaledRoot(100, q, s)))
       ELSE 50

\* Math.round(avg * 10) / 10 for an average of sum / count seconds
averageGapMinutes(sum, count) ==
    IF count = 0 THEN NotANumber ELSE Finite(roundSigned(sum, 6 * count))

\* analyzePhases: the early, middle and late third of the messages
analyzePhases(msgs) ==
    LET thirdLength == Len(msgs) \div 3
    IN [index \in 0..2 |->
           LET phaseMessages ==
                   slice(msgs, index * thirdLength,
                         IF index = 2 THEN Len(msgs) ELSE (index + 1) * thirdLength)
               gaps == gapsOf(phaseMessages)
           IN [messageCount |-> Len(phaseMessages),
               avgGapMinutes |-> IF Len(gaps) > 0
                                 THEN roundSigned(SumOfGaps(gaps), 6 * Len(gaps)) ELSE 0,
               senderCounts |-> [sn \in SenderSet(phaseMessages) |->
                                    Len(messagesOf(phaseMessages, sn))]]]

analyzeConversationRhythm(msgs) ==
    IF Len(msgs) < 5
    THEN [rhythm |-> "insufficient_data", confidence |-> 0, details |-> None]
    ELSE LET gaps == gapsOf(msgs)
             thirdLength == Len(gaps) \div 3
             firstThird == slice(gaps, 0, thirdLength)
             lastThird == lastSlice(gaps, thirdLength)
         IN [rhythm |-> rhythmOf(gaps),
             confidence |-> confidenceOf(gaps),
             details |->
                 Some([avgGapMinutes |-> averageGapMinutes(SumOfGaps(gaps), Len(gaps)),
                       medianGapMinutes |->
                           Finite(roundSigned(sortGaps(gaps)[(Len(gaps) \div 2) + 1], 6)),
                       variabilityCoefficient |-> variabilityCoefficientOf(gaps),
                       firstPhaseAvgGap |->
                           averageGapMinutes(SumOfGaps(firstThird), Len(firstThird)),
                       lastPhaseAvgGap |->
                           averageGapMinutes(SumOfGaps(lastThird), Len(lastThird)),
                       phases |-> analyzePhases(msgs)])]

\* ---- analyzeLanguageUsage

\* Text is a sequence of tokens.  The word tokens stand for runs of \w
\* characters, here of two letters each; every other token is white space or
\* a character the regular expression of extractWords turns into a space.
WordTokens == {"hi", "yo", "ok"}

\* the words of the model that are in STOPWORDS
STOPWORDS == {<<"ok">>}

\* text.length in UTF-16 units
RECURSIVE textLength(_)
textLength(text) ==
    IF text = <<>> THEN 0
    ELSE (IF Head(text) \in WordTokens \cup AstralChars THEN 2 ELSE 1) + textLength(Tail(text))

\* extractWords: adjacent word tokens run together into one word
RECURSIVE extractWordsFrom(_, _)
extractWordsFrom(text, word) ==
    IF text = <<>> THEN (IF word = <<>> THEN <<>> ELSE <<word>>)
    ELSE IF Head(text) \in WordTokens THEN extractWordsFrom(Tail(text), Append(word, Head(text)))
    ELSE (IF word = <<>> THEN <<>> ELSE <<word>>) \o extractWordsFrom(Tail(text), <<>>)

extractWords(text) == extractWordsFrom(text, <<>>)

\* the words of all messages, in the order the loops meet them
RECURSIVE allWordsOf(_)
allWordsOf(msgs) ==
    IF msgs = <<>> THEN <<>>
    ELSE allWordsOf(SubSeq(msgs, 1, Len(msgs) - 1)) \o extractWords(msgs[Len(msgs)].text)

\* the words that are counted in wordFreq
countedWords(words) ==
    SelectSeq(words, LAMBDA word : word \notin STOPWORDS /\ textLength(word) > 1)

\* Object.entries(wordFreq).sort((a, b) => b[1] - a[1])
sortedWordsOf(words) ==
    LET counted == countedWords(words)
        keys == Unique(counted)
        wordFreq == tableOf(counted)
    IN sortByCount([k \in 1..Len(keys) |-> [word |-> keys[k], count |-> wordFreq[keys[k]]]])

\* Math.round(count / totalWords * 1000) / 10, in tenths of a percent
roundPerMille(count, totalWords) ==
    IF totalWords = 0 THEN NotANumber ELSE Finite((2000 * count + totalWords) \div (2 * totalWords))

analyzeLanguageUsage(msgs) ==
    IF msgs = <<>>
    THEN [wordCloud |-> <<>>, topWords |-> <<>>, statistics |-> None]
    ELSE LET words == allWordsOf(msgs)
             totalWords == Len(words)
             sortedWords == sortedWordsOf(words)
             maxFreq == IF Len(sortedWords) > 0 THEN sortedWords[1].count ELSE 1
             cloud == slice(sortedWords, 0, 50)
             top == slice(sortedWords, 0, 20)
         IN [wordCloud |->
                 [k \in 1..Len(cloud) |->
                     <<cloud[k].word, Max(12, (120 * cloud[k].count + maxFreq) \div (2 * maxFreq))>>],
             topWords |->
                 [k \in 1..Len(top) |->
                     [word |-> top[k].word, count |-> top[k].count,
                      percentage |-> roundPerMille(top[k].count, totalWords)]],
             statistics |->
                 Some([uniqueWords |-> Len(sortedWords),
                       totalWords |-> totalWords,
                       senderStats |->
                           [sn \in SenderSet(msgs) |->
                               LET senderMessages == messagesOf(msgs, sn)
                                   senderWords == allWordsOf(senderMessages)
                                   senderTopWords == slice(sortedWordsOf(senderWords), 0, 5)
                               IN [totalWords |-> Len(senderWords),
                                   avgWordsPerMessage |->
                                       roundTenths(Len(senderWords), Len(senderMessages)),
                                   topWords |-> [k \in 1..Len(senderTopWords) |->
                                                    senderTopWords[k].word]]]])]

\* ---- analyzeMessageLength

\* Math.round(num / den) for 0 <= num and 0 < den
roundDiv(num, den) == (2 * num + den) \div (2 * den)

RECURSIVE SumOfTextLengths(_)
SumOfTextLengths(msgs) ==
    IF msgs = <<>> THEN 0 ELSE textLength(Head(msgs).text) + SumOfTextLengths(Tail(msgs))

LengthsOf(msgs) == {textLength(msgs[i].text) : i \in 1..Len(msgs)}

\* Math.min(...lengths) and Math.max(...lengths) of a non-empty list
minLengthOf(msgs) == CHOOSE l \in LengthsOf(msgs) : \A o \in LengthsOf(msgs) : l <= o
maxLengthOf(msgs) == CHOOSE l \in LengthsOf(msgs) : \A o \in LengthsOf(msgs) : l >= o

\* Math.ceil((lastDate - firstDate) / one day) + 1
spanDaysOf(sortedMessages) ==
    ((sortedMessages[Len(sortedMessages)].timestamp - sortedMessages[1].timestamp
      + SecondsPerDay - 1) \div SecondsPerDay) + 1

binSizeOf(spanDays) == IF spanDays <= 60 THEN 7 ELSE 30

binIndexOf(m, sortedMessages) ==
    (m.timestamp - sortedMessages[1].timestamp)
        \div (SecondsPerDay * binSizeOf(spanDaysOf(sortedMessages)))

\* the messages of one bin
binMessages(sortedMessages, bin) ==
    SelectSeq(sortedMessages, LAMBDA m : binIndexOf(m, sortedMessages) = bin)

RECURSIVE SumOfNumbers(_)
SumOfNumbers(list) == IF list = <<>> THEN 0 ELSE Head(list) + SumOfNumbers(Tail(list))

\* the trend of overallData: change = (secondAvg - firstAvg) / firstAvg * 100,
\* which is Infinity or NaN for a first average of 0
lengthTrendOf(overallData) ==
    IF Len(overallData) < 3 THEN "stable"
    ELSE LET half == Len(overallData) \div 2
             first == SumOfNumbers(slice(overallData, 0, half))
             second == SumOfNumbers(slice(overallData, half, Len(overallData)))
             firstCount == half
             secondCount == Len(overallData) - half
         IN IF first = 0
            THEN (IF second > 0 THEN "increasing" ELSE "stable")
            ELSE IF 100 * (second * firstCount - first * secondCount) > 15 * first * secondCount
                 THEN "increasing"
            ELSE IF 100 * (second * firstCount - first * secondCount) < -15 * first * secondCount
                 THEN "decreasing"
            ELSE "stable"

analyzeMessageLength(msgs) ==
    IF msgs = <<>>
    THEN [avgLength |-> 0, trend |-> "stable", perSender |-> <<>>, labels |-> <<>>,
          datasets |-> <<>>]
    ELSE LET senders == Unique([i \in 1..Len(msgs) |-> msgs[i].sender])
             sortedMessages == sortByTimestamp(msgs)
             spanDays == spanDaysOf(sortedMessages)
             binKeys == sortedDatesOf({binIndexOf(sortedMessages[i], sortedMessages) :
                                          i \in 1..Len(sortedMessages)})
             overallData ==
                 [k \in 1..Len(binKeys) |->
                     LET inBin == binMessages(sortedMessages, binKeys[k])
                     IN roundDiv(SumOfTextLengths(inBin), Len(inBin))]
             short == CountWhere(msgs, LAMBDA m : textLength(m.text) <= 20)
             medium == CountWhere(msgs, LAMBDA m : textLength(m.text) > 20
                                                     /\ textLength(m.text) <= 100)
             long == CountWhere(msgs, LAMBDA m : textLength(m.text) > 100)
         IN [avgLength |-> roundDiv(SumOfTextLengths(msgs), Len(msgs)),
             trend |-> lengthTrendOf(overallData),
             perSender |->
                 [sn \in SenderSet(msgs) |->
                     LET senderMsgs == messagesOf(msgs, sn)
                     IN [avgLength |-> IF Len(senderMsgs) > 0
                                       THEN roundDiv(SumOfTextLengths(senderMsgs), Len(senderMsgs))
                                       ELSE 0,
                         minLength |-> minLengthOf(senderMsgs),
                         maxLength |-> maxLengthOf(senderMsgs),
                         totalMessages |-> Len(senderMsgs)]],
             labels |-> [k \in 1..Len(binKeys) |-> k],
             datasets |->
                 [s \in 1..Len(senders) |->
                     [label |-> senders[s],
                      data |-> [k \in 1..Len(binKeys) |->
                                   LET inBin == messagesOf(binMessages(sortedMessages, binKeys[k]),
                                                           senders[s])
                                   IN IF inBin # <<>>
                                      THEN Some(roundDiv(SumOfTextLengths(inBin), Len(inBin)))
                                      ELSE None]]],
             typeBreakdown |-> [short |-> roundPercent(short, Len(msgs)),
                                medium |-> roundPercent(medium, Len(msgs)),
                                long |-> roundPercent(long, Len(msgs))],
             binLabel |-> IF spanDays <= 60 THEN "week" ELSE "month"]

\* ---- analyzeFirstLast

\* messagesByDate[date], sorted: the messages of one UTC day in time order
dayMessagesOf(msgs, date) ==
    sortByTimestamp(SelectSeq(msgs, LAMBDA m : utcDay(m.timestamp) = date))

firstOf(msgs, date) == dayMessagesOf(msgs, date)[1]

lastOf(msgs, date) == dayMessagesOf(msgs, date)[Len(dayMessagesOf(msgs, date))]

\* the forEach over senders that keeps the first sender with the largest count
RECURSIVE leaderFrom(_, _, _, _)
leaderFrom(senders, counts, best, leader) ==
    IF senders = <<>> THEN leader
    ELSE IF counts[Head(senders)] > best
         THEN leaderFrom(Tail(senders), counts, counts[Head(senders)], Some(Head(senders)))
         ELSE leaderFrom(Tail(senders), counts, best, leader)

analyzeFirstLast(msgs, zone) ==
    IF msgs = <<>>
    THEN [firstMessage |-> <<>>, lastMessage |-> <<>>, morningPerson |-> None,
          nightOwl |-> None]
    ELSE LET senders == Unique([i \in 1..Len(msgs) |-> msgs[i].sender])
             dates == activeDates(msgs)
             totalDays == Cardinality(dates)
             firstCounts ==
                 [sn \in SenderSet(msgs) |->
                     Cardinality({d \in dates : firstOf(msgs, d).sender = sn})]
             lastCounts ==
                 [sn \in SenderSet(msgs) |->
                     Cardinality({d \in dates : lastOf(msgs, d).sender = sn})]
         IN [firstMessage |->
                 [sn \in SenderSet(msgs) |->
                     [count |-> firstCounts[sn],
                      percent |-> roundPercent(firstCounts[sn], totalDays)]],
             lastMessage |->
                 [sn \in SenderSet(msgs) |->
                     [count |-> lastCounts[sn],
                      percent |-> roundPercent(lastCounts[sn], totalDays)]],
             morningPerson |-> leaderFrom(senders, firstCounts, 0, None),
             nightOwl |-> leaderFrom(senders, lastCounts, 0, None),
             totalDays |-> totalDays,
             earlyBirdCounts |->
                 [sn \in SenderSet(msgs) |->
                     Cardinality({d \in dates :
                         /\ firstOf(msgs, d).sender = sn
                         /\ getHours(firstOf(msgs, d).timestamp, zone) < 9})],
             lateNightCounts |->
                 [sn \in SenderSet(msgs) |->
                     Cardinality({d \in dates :
                         /\ lastOf(msgs, d).sender = sn
                         /\ getHours(lastOf(msgs, d).timestamp, zone) >= 23})]]

\* ------------------------------------------------------------------ the page (main application)

\* startTime of runAnalysis: new Date('YYYY-MM-DD') is UTC midnight of that day
startTimeOf(startInput) ==
    IF startInput # None THEN startInput[1] * SecondsPerDay ELSE 0

\* endTime of runAnalysis: setHours(23, 59, 59, 999) moves the UTC midnight of
\* the end day to the end of the local day it falls on; Date.now() without one
endTimeOf(endInput, now, zone) ==
    IF endInput # None
    THEN LocalMidnight(endInput[1] * SecondsPerDay, zone) + SecondsPerDay - 1
    ELSE now

\* the callback of parsedData.messages.filter
passesFilter(m, excluded, startTime, endTime) ==
    IF m.sender \in excluded THEN FALSE
    ELSE m.timestamp >= startTime /\ m.timestamp <= endTime

filterMessages(msgs, excluded, startInput, endInput, now, zone) ==
    SelectSeq(msgs, LAMBDA m : passesFilter(m, excluded, startTimeOf(startInput),
                                            endTimeOf(endInput, now, zone)))

\* the analysisResults object of runAnalysis
analyze(msgs, now, zone) ==
    [activity |-> analyzeMessageActivity(msgs, zone),
     response |-> analyzeResponseTiming(msgs),
     initiation |-> analyzeInitiationBalance(msgs),
     language |-> analyzeLanguageUsage(msgs),
     rhythm |-> analyzeConversationRhythm(msgs),
     emoji |-> analyzeEmojiUsage(msgs),
     peakHours |-> analyzePeakHours(msgs, zone),
     streaks |-> analyzeStreaks(msgs, now, zone),
     messageLength |-> analyzeMessageLength(msgs),
     firstLast |-> analyzeFirstLast(msgs, zone)]

\* renderResults: renderPeakHours reads dayNames[day] of the empty shape of
\* analyzePeakHours, which has no dayNamesEN / dayNamesID, and throws
renderThrows(msgs) == msgs = <<>>

\* the catch block of analyzeConversation: the flag is left as it was at the call
caught(reanalyzing) ==
    /\ isReanalyzing' = reanalyzing
    /\ uploadShown' = TRUE
    /\ UNCHANGED resultsShown

\* runAnalysis with the page state given; an exception of renderResults is
\* caught by the caller
runAnalysis(data, excluded, startInput, endInput, reanalyzing) ==
    /\ filteredMessages' =
          filterMessages(data.messages, excluded, startInput, endInput, clock, tz)
    /\ analysisResults' = Some(analyze(filteredMessages', clock, tz))
    /\ IF renderThrows(filteredMessages')
       THEN caught(reanalyzing)
       ELSE /\ isReanalyzing' = FALSE
            /\ uploadShown' = FALSE
            /\ resultsShown' = TRUE

allParticipantsOf(data) == SenderSet(data.messages)

RECURSIVE minTimestamp(_)
minTimestamp(msgs) ==
    IF Len(msgs) = 1 THEN msgs[1].timestamp
    ELSE LET rest == minTimestamp(Tail(msgs))
         IN IF msgs[1].timestamp <= rest THEN msgs[1].timestamp ELSE rest

RECURSIVE maxTimestamp(_)
maxTimestamp(msgs) ==
    IF Len(msgs) = 1 THEN msgs[1].timestamp
    ELSE LET rest == maxTimestamp(Tail(msgs))
         IN IF msgs[1].timestamp >= rest THEN msgs[1].timestamp ELSE rest

\* messages a parser can return: day 1 10:00, day 2 10:00 and day 3 10:00 (UTC)
AppMessages ==
    { Message(1 * SecondsPerDay + 10 * SecondsPerHour, Alice, <<"hi">>),
      Message(2 * SecondsPerDay + 10 * SecondsPerHour, Bob, <<"yo", " ", "U+1F600">>),
      Message(3 * SecondsPerDay + 10 * SecondsPerHour, Bob, <<"yo", " ", "U+1F600">>) }

\* the exports a user can choose, each given by the messages it holds in
\* timestamp order; the export without a valid message is among them
AppFiles ==
    {l \in SeqsUpTo(AppMessages, MaxAppMessages) :
        \A i \in 1..(Len(l) - 1) : l[i].timestamp < l[i + 1].timestamp}

\* parseFile on a chosen export: None when the parser throws 'No valid
\* messages found', else Some(parsed result)
parseFileOf(f) ==
    IF f = <<>> THEN None
    ELSE Some([messages |-> f, metadata |-> metadataOf(f, "whatsapp", None)])

ParsedResults == {parseFileOf(f)[1] : f \in AppFiles \ {<<>>}}

AppDays == {1, 3}

AppClocks == {3 * SecondsPerDay + 12 * SecondsPerHour, 5 * SecondsPerDay + 12 * SecondsPerHour}

AppZones == {0, -5 * SecondsPerHour}

AppFrame == UNCHANGED <<stNow, parseVars, lineVars, mergeVars, tz>>

\* (variant: every call parses)
needsParse_Always(data, reanalyzing) == TRUE

\* 'Only parse if we don't have data yet or if it's a fresh start'
needsParse(data, reanalyzing) == data = None \/ ~reanalyzing

\* analyzeConversation, called with isReanalyzing = reanalyzing: parse (and
\* reset the filter panel) when needed, then run the analysis
analyzeConversation(reanalyzing) ==
    IF currentFile = None /\ parsedData = None
    THEN /\ isReanalyzing' = reanalyzing
         /\ UNCHANGED <<parsedData, allParticipants, excludedParticipants, startDate,
                        endDate, filteredMessages, analysisResults, uploadShown,
                        resultsShown>>
    ELSE IF needsParse(parsedData, reanalyzing)
         THEN LET result == IF currentFile = None THEN None
                            ELSE parseFileOf(currentFile[1])
              IN IF result = None
                 THEN /\ caught(reanalyzing)
                      /\ UNCHANGED <<parsedData, allParticipants, excludedParticipants,
                                     startDate, endDate, filteredMessages,
                                     analysisResults>>
                 ELSE LET msgs == result[1].messages
                          start == Some(utcDay(minTimestamp(msgs)))
                          end == Some(utcDay(maxTimestamp(msgs)))
                      IN /\ parsedData' = result
                         /\ allParticipants' = allParticipantsOf(result[1])
                         /\ excludedParticipants' = {}
                         /\ startDate' = start
                         /\ endDate' = end
                         /\ runAnalysis(result[1], {}, start, end, reanalyzing)
         ELSE /\ UNCHANGED <<parsedData, allParticipants, excludedParticipants,
                             startDate, endDate>>
              /\ runAnalysis(parsedData[1], excludedParticipants, startDate, endDate,
                             reanalyzing)

\* handleFileSelect(file): an export is chosen in the upload section
HandleFileSelect ==
    /\ uploadShown
    /\ \E f \in AppFiles : currentFile' = Some(f)
    /\ UNCHANGED <<allParticipants, parsedData, excludedParticipants, startDate, endDate, isReanalyzing,
                   scheduled, uploadShown, resultsShown, filteredMessages,
                   analysisResults, clock>>
    /\ AppFrame

\* resetFileSelection: the chosen export is removed again
ResetFileSelection ==
    /\ uploadShown
    /\ currentFile # None
    /\ currentFile' = None
    /\ UNCHANGED <<allParticipants, parsedData, excludedParticipants, startDate, endDate, isReanalyzing,
                   scheduled, uploadShown, resultsShown, filteredMessages,
                   analysisResults, clock>>
    /\ AppFrame

\* the Analyze button (enabled while an export is chosen) calls analyzeConversation
AnalyzeConversation ==
    /\ uploadShown
    /\ currentFile # None
    /\ analyzeConversation(isReanalyzing)
    /\ UNCHANGED <<currentFile, scheduled, clock>>
    /\ AppFrame

\* handleParticipantToggle(checkbox)
HandleParticipantToggle ==
    /\ resultsShown
    /\ parsedData # None
    /\ \E name \in allParticipants, checked \in BOOLEAN :
          excludedParticipants' = IF checked THEN excludedParticipants \ {name}
                                  ELSE excludedParticipants \cup {name}
    /\ UNCHANGED <<parsedData, startDate, endDate, pageVars, filteredMessages,
                   analysisResults, clock>>
    /\ AppFrame

\* selectAllParticipants(select)
SelectAllParticipants ==
    /\ resultsShown
    /\ parsedData # None
    /\ \E select \in BOOLEAN :
          excludedParticipants' = IF select THEN excludedParticipants \ allParticipants
                                  ELSE excludedParticipants \cup allParticipants
    /\ UNCHANGED <<parsedData, startDate, endDate, pageVars, filteredMessages,
                   analysisResults, clock>>
    /\ AppFrame

\* the user edits or clears one of the two date inputs
ChangeDateRange ==
    /\ resultsShown
    /\ parsedData # None
    /\ \E value \in {None} \cup {Some(d) : d \in AppDays} :
          \/ startDate' = value /\ UNCHANGED endDate
          \/ endDate' = value /\ UNCHANGED startDate
    /\ UNCHANGED <<parsedData, excludedParticipants, pageVars, filteredMessages,
                   analysisResults, clock>>
    /\ AppFrame

\* applyParticipantFilter: the loading section replaces the results and the
\* re-analysis is put on a 50 ms timeout
ApplyParticipantFilter ==
    /\ resultsShown
    /\ resultsShown' = FALSE
    /\ scheduled' = TRUE
    /\ UNCHANGED <<allParticipants, parsedData, excludedParticipants, startDate, endDate, currentFile,
                   isReanalyzing, uploadShown, filteredMessages, analysisResults, clock>>
    /\ AppFrame

\* the timeout of applyParticipantFilter fires: isReanalyzing = true, then
\* analyzeConversation()
ReanalysisTimeout ==
    /\ scheduled
    /\ scheduled' = FALSE
    /\ analyzeConversation(TRUE)
    /\ UNCHANGED <<currentFile, clock>>
    /\ AppFrame

\* resetApplication (the 'new analysis' button of the results section)
ResetApplication ==
    /\ resultsShown
    /\ currentFile' = None
    /\ parsedData' = None
    /\ analysisResults' = None
    /\ uploadShown' = TRUE
    /\ resultsShown' = FALSE
    /\ UNCHANGED <<allParticipants, excludedParticipants, startDate, endDate, isReanalyzing, scheduled,
                   filteredMessages, clock>>
    /\ AppFrame

\* time passes
Tick ==
    /\ \E later \in AppClocks : later > clock /\ clock' = later
    /\ UNCHANGED <<parsedData, excludedParticipants, startDate, endDate, pageVars,
                   filteredMessages, analysisResults>>
    /\ AppFrame

\* ---- all analyzers on one list

\* day 1 at 10:00 and 14:00, day 2 at 10:00
AnalyzeTimes ==
    {10 * SecondsPerHour, 14 * SecondsPerHour, SecondsPerDay + 10 * SecondsPerHour}

\* Alice writes words, Bob an emoji
AnalyzeMessages ==
    {Message(t, Alice, <<"hi", " ", "yo">>) : t \in AnalyzeTimes}
    \cup {Message(t, Bob, <<"U+1F600">>) : t \in AnalyzeTimes}

\* lists in timestamp order, as the parsers are to return them
AnalyzeInputs ==
    {l \in SeqsUpTo(AnalyzeMessages, MaxAnalyzeMessages) :
        \A i \in 1..(Len(l) - 1) : l[i].timestamp <= l[i + 1].timestamp}

\* the ten calls of runAnalysis on a filtered list
AnalyzeAll ==
    /\ analysisResults = None
    /\ analysisResults' = Some(analyze(filteredMessages, clock, tz))
    /\ AnalyzeFrame

\* ---- one call of analyzeConversationRhythm

\* minutes 0, 1, 2 and 5
RhythmTimes == {0, SecondsPerMinute, 2 * SecondsPerMinute, 5 * SecondsPerMinute}

\* lists in any order: parseAlternativeFormat returns its messages unsorted
RhythmInputs == SeqsUpTo(MessagesAt(RhythmTimes, {Alice}), MaxRhythmMessages)

AnalyzeConversationRhythm ==
    /\ analysisResults = None
    /\ analysisResults' = Some(analyzeConversationRhythm(filteredMessages))
    /\ AnalyzeFrame

\* ---- one call of analyzeMessageActivity

\* 1 January 1970 at 10:00 and 20:00, and the same hours 60 and 365 days later
ActivityTimes ==
    { 10 * SecondsPerHour,
      20 * SecondsPerHour,
      60 * SecondsPerDay + 10 * SecondsPerHour,
      60 * SecondsPerDay + 20 * SecondsPerHour,
      365 * SecondsPerDay + 10 * SecondsPerHour,
      365 * SecondsPerDay + 20 * SecondsPerHour }

ActivityInputs == SeqsUpTo(MessagesAt(ActivityTimes, {Alice, Bob}), MaxActivityMessages)

AnalyzeMessageActivity ==
    /\ analysisResults = None
    /\ analysisResults' = Some(analyzeMessageActivity(filteredMessages, tz))
    /\ AnalyzeFrame

\* ---- long conversations for the periods of analyzeResponseTiming

\* who writes the i-th message: in turns, two messages each, or one sender only
speakerOf(turns, i) ==
    CASE turns = "alternate" -> IF i % 2 = 1 THEN Alice ELSE Bob
      [] turns = "pairs" -> IF ((i - 1) \div 2) % 2 = 0 THEN Alice ELSE Bob
      [] OTHER -> Alice

\* when the i-th of m messages is written: a minute apart, or with gaps that
\* grow or shrink by ten seconds a message
writtenAt(pace, i, m) ==
    CASE pace = "steady" -> SecondsPerMinute * i
      [] pace = "slowing" -> 5 * i * (i + 1)
      [] OTHER -> 10 * i * (m + 1) - 5 * i * (i + 1)

conversationOf(m, turns, pace) ==
    [i \in 1..m |-> Message(writtenAt(pace, i, m), speakerOf(turns, i), <<"hi">>)]

PeriodInputs ==
    {conversationOf(m, turns, pace) :
        m \in 0..MaxPeriodMessages,
        turns \in {"alternate", "pairs", "monologue"},
        pace \in {"steady", "slowing", "quickening"}}

\* ---- conversations with many initiations for analyzeInitiationBalance

\* a + b conversations five hours apart, the first a started by `opener` and
\* the others by `follower`; when answered, the other participant replies a
\* minute after each start
startedBy(k, a, opener, follower) == IF k <= a THEN opener ELSE follower

otherOf(sender) == IF sender = Alice THEN Bob ELSE Alice

bareConversations(a, b, opener) ==
    [k \in 1..(a + b) |->
        Message(5 * SecondsPerHour * k, startedBy(k, a, opener, otherOf(opener)), <<"hi">>)]

answeredConversations(a, b, opener) ==
    [i \in 1..(2 * (a + b)) |->
        LET k == (i + 1) \div 2
            starter == startedBy(k, a, opener, otherOf(opener))
        IN IF i % 2 = 1
           THEN Message(5 * SecondsPerHour * k, starter, <<"hi">>)
           ELSE Message(5 * SecondsPerHour * k + SecondsPerMinute, otherOf(starter), <<"yo">>)]

BalanceInputs ==
    {bareConversations(a, b, opener) :
        a \in 0..MaxInitiations, b \in 0..MaxInitiations, opener \in {Alice, Bob}}
    \cup {answeredConversations(a, b, opener) :
        a \in 0..MaxInitiations, b \in 0..MaxInitiations, opener \in {Alice, Bob}}

\* ---- one call of parseCSVLine

\* fields with letters, commas, double quotes and white space
FieldTexts ==
    { <<>>,
      <<"a">>,
      <<",">>,
      <<"\"">>,
      <<"a", " ", "\"", ",", "a">>,
      <<" ", "a">> }

FieldLists == SeqsUpTo(FieldTexts, MaxFields)

\* a field as a CSV writer quotes it: in double quotes, inner quotes doubled
RECURSIVE doubleQuotes(_)
doubleQuotes(field) ==
    IF field = <<>> THEN <<>>
    ELSE (IF Head(field) = "\"" THEN <<"\"", "\"">> ELSE <<Head(field)>>)
         \o doubleQuotes(Tail(field))

quoteField(field) == <<"\"">> \o doubleQuotes(field) \o <<"\"">>

\* the fields, quoted, joined with commas
RECURSIVE quotedLine(_)
quotedLine(fields) ==
    IF fields = <<>> THEN <<>>
    ELSE IF Len(fields) = 1 THEN quoteField(fields[1])
    ELSE quoteField(Head(fields)) \o <<",">> \o quotedLine(Tail(fields))

\* the fields joined with commas as they are
RECURSIVE plainLine(_)
plainLine(fields) ==
    IF fields = <<>> THEN <<>>
    ELSE IF Len(fields) = 1 THEN fields[1]
    ELSE Head(fields) \o <<",">> \o plainLine(Tail(fields))

ParseCSVLine ==
    /\ csvValues = None
    /\ csvValues' = Some(parseCSVLine(csvLine))
    /\ UNCHANGED <<csvLine, csvFields, parseVars, mergeVars, analysisVars, appVars, envVars>>

\* ------------------------------------------------------------------ specifications

\* no call of parseCSVLine under study
LineOff ==
    /\ csvLine = <<>>
    /\ csvValues = None
    /\ csvFields = <<>>

AnalysisOff ==
    /\ filteredMessages = <<>>
    /\ analysisResults = None
    /\ stNow = 0

\* the page before a file has been analysed
AppOff ==
    /\ parsedData = None
    /\ excludedParticipants = {}
    /\ startDate = None
    /\ endDate = None
    /\ currentFile = None
    /\ allParticipants = {}
    /\ isReanalyzing = FALSE
    /\ scheduled = FALSE
    /\ uploadShown = TRUE
    /\ resultsShown = FALSE

EnvFixed ==
    /\ clock \in ClockValues
    /\ tz = 0

\* one call of parseFile
InitParse == ParseInit /\ LineOff /\ MergeOff /\ AnalysisOff /\ AppOff /\ EnvFixed

SpecParse == InitParse /\ [][ParseNext]_vars

\* one call of mergeTelegramResults
MergeNext == Merge

InitMerge == ParseOff /\ LineOff /\ MergeInit /\ AnalysisOff /\ AppOff /\ EnvFixed

SpecMerge == InitMerge /\ [][MergeNext]_vars

\* a file is parsed, or the parsed files of an export are merged
InitIngest == (ParseInit /\ LineOff /\ MergeOff /\ AnalysisOff /\ AppOff /\ EnvFixed)
              \/ (ParseOff /\ LineOff /\ MergeInit /\ AnalysisOff /\ AppOff /\ EnvFixed)

IngestNext == ParseNext \/ Merge

SpecIngest == InitIngest /\ [][IngestNext]_vars

\* one call of analyzeResponseTiming
InitResponse ==
    /\ ParseOff /\ LineOff /\ MergeOff /\ EnvFixed
    /\ filteredMessages \in ResponseInputs
    /\ analysisResults = None
    /\ AppOff
    /\ stNow = 0

ResponseNext == AnalyzeResponseTiming

SpecResponse == InitResponse /\ [][ResponseNext]_vars

\* one call of analyzeInitiationBalance
InitInitiation ==
    /\ ParseOff /\ LineOff /\ MergeOff /\ EnvFixed
    /\ filteredMessages \in InitiationInputs
    /\ analysisResults = None
    /\ AppOff
    /\ stNow = 0

InitiationNext == AnalyzeInitiationBalance

SpecInitiation == InitInitiation /\ [][InitiationNext]_vars

\* one call of analyzeStreaks, at any time of the clock and in any zone
InitStreaks ==
    /\ ParseOff /\ LineOff /\ MergeOff
    /\ filteredMessages \in StreakInputs
    /\ analysisResults = None
    /\ AppOff
    /\ stNow \in StreakClocks
    /\ clock \in StreakClocks
    /\ tz \in TimeZones

StreaksNext == AnalyzeStreaks

SpecStreaks == InitStreaks /\ [][StreaksNext]_vars

\* one call of analyzePeakHours, in any zone
InitPeak ==
    /\ ParseOff /\ LineOff /\ MergeOff
    /\ filteredMessages \in PeakInputs
    /\ analysisResults = None
    /\ AppOff
    /\ stNow = 0
    /\ clock \in ClockValues
    /\ tz \in TimeZones

PeakNext == AnalyzePeakHours

SpecPeak == InitPeak /\ [][PeakNext]_vars

\* one call of analyzeEmojiUsage
InitEmoji ==
    /\ ParseOff /\ LineOff /\ MergeOff /\ EnvFixed
    /\ filteredMessages \in EmojiInputs
    /\ analysisResults = None
    /\ AppOff
    /\ stNow = 0

EmojiNext == AnalyzeEmojiUsage

SpecEmoji == InitEmoji /\ [][EmojiNext]_vars

\* the page: a file is analysed, the filter panel is used, the analysis is
\* run again, a new analysis is started
InitApp ==
    /\ ParseOff /\ LineOff /\ MergeOff /\ AnalysisOff /\ AppOff
    /\ clock \in AppClocks
    /\ tz \in AppZones

AppNext ==
    \/ HandleFileSelect
    \/ ResetFileSelection
    \/ AnalyzeConversation
    \/ HandleParticipantToggle
    \/ SelectAllParticipants
    \/ ChangeDateRange
    \/ ApplyParticipantFilter
    \/ ReanalysisTimeout
    \/ ResetApplication
    \/ Tick

SpecApp == InitApp /\ [][AppNext]_vars

\* the ten analyzers of runAnalysis on one list
InitAnalyze ==
    /\ ParseOff /\ LineOff /\ MergeOff /\ EnvFixed
    /\ filteredMessages \in AnalyzeInputs
    /\ analysisResults = None
    /\ AppOff
    /\ stNow = 0

AnalyzeNext == AnalyzeAll

SpecAnalyze == InitAnalyze /\ [][AnalyzeNext]_vars

\* one call of analyzeConversationRhythm
InitRhythm ==
    /\ ParseOff /\ LineOff /\ MergeOff /\ EnvFixed
    /\ filteredMessages \in RhythmInputs
    /\ analysisResults = None
    /\ AppOff
    /\ stNow = 0

RhythmNext == AnalyzeConversationRhythm

SpecRhythm == InitRhythm /\ [][RhythmNext]_vars

\* one call of analyzeMessageActivity, in any zone
InitActivity ==
    /\ ParseOff /\ LineOff /\ MergeOff
    /\ filteredMessages \in ActivityInputs
    /\ analysisResults = None
    /\ AppOff
    /\ stNow = 0
    /\ clock \in ClockValues
    /\ tz \in TimeZones

ActivityNext == AnalyzeMessageActivity

SpecActivity == InitActivity /\ [][ActivityNext]_vars

\* one call of analyzeResponseTiming on a long conversation
InitPeriods ==
    /\ ParseOff /\ LineOff /\ MergeOff /\ EnvFixed
    /\ filteredMessages \in PeriodInputs
    /\ analysisResults = None
    /\ AppOff
    /\ stNow = 0

PeriodsNext == AnalyzeResponseTiming

SpecPeriods == InitPeriods /\ [][PeriodsNext]_vars

\* one call of analyzeInitiationBalance on a conversation with many initiations
InitBalance ==
    /\ ParseOff /\ LineOff /\ MergeOff /\ EnvFixed
    /\ filteredMessages \in BalanceInputs
    /\ analysisResults = None
    /\ AppOff
    /\ stNow = 0

BalanceNext == AnalyzeInitiationBalance

SpecBalance == InitBalance /\ [][BalanceNext]_vars

\* one call of parseCSVLine
InitLine ==
    /\ ParseOff /\ MergeOff /\ AnalysisOff /\ AppOff /\ EnvFixed
    /\ csvFields \in FieldLists
    /\ csvLine \in {quotedLine(csvFields), plainLine(csvFields)}
    /\ csvValues = None

LineNext == ParseCSVLine

SpecLine == InitLine /\ [][LineNext]_vars

\* ================================================================== claims

\* a <= b on timestamps: false as soon as one of them is NaN
TimestampLeq(a, b) == a # NaN /\ b # NaN /\ a <= b

IsSortedByTimestamp(msgs) ==
    \A i \in 1..(Len(msgs) - 1) : TimestampLeq(msgs[i].timestamp, msgs[i + 1].timestamp)

\* C1: whenever a parser (parseWhatsApp, parseCSV, parseTelegramExport on the
\* .history path and on the fallback path) or mergeTelegramResults returns,
\* the message list it returns is in non-decreasing timestamp order.
C1_ReturnedListSorted ==
    /\ parsed # None => IsSortedByTimestamp(parsed[1].messages)
    /\ merged # None => IsSortedByTimestamp(merged[1].messages)

\* ---- what parseWhatsApp is to make of the lines, line by line

IsDateLine(line) == line.kind = "msg"
IsKept(line) == IsDateLine(line) /\ ~isSystemMessage(line.sender, line.text)

\* the last date-matching line among the first i lines (0: none)
LastDateLine(lines, i) ==
    IF \E j \in 1..i : IsDateLine(lines[j])
    THEN CHOOSE j \in 1..i : IsDateLine(lines[j]) /\ \A k \in (j + 1)..i : ~IsDateLine(lines[k])
    ELSE 0

\* the line the parser is about to read
NextLine == file.body[idx + 1]

ReadingWhatsApp == pc = "whatsapp" /\ idx < Len(file.body)

\* C2: a non-blank line that matches no pattern and follows a kept message is
\* appended, after a newline, to the text of that message: the text grows,
\* sender and timestamp stay, no other message changes and no message is added.
C2_ContinuationExtendsText ==
    [][ (/\ ReadingWhatsApp
         /\ NextLine.kind = "other"
         /\ LastDateLine(file.body, idx) > 0
         /\ IsKept(file.body[LastDateLine(file.body, idx)]))
        => (/\ currentMessage # None
            /\ currentMessage' # None
            /\ currentMessage'[1].text = currentMessage[1].text \o <<"\n">> \o NextLine.text
            /\ Len(currentMessage'[1].text) > Len(currentMessage[1].text)
            /\ currentMessage'[1].sender = currentMessage[1].sender
            /\ currentMessage'[1].timestamp = currentMessage[1].timestamp
            /\ messages' = messages) ]_vars

C2_Witness ==
    /\ pc = "done"
    /\ parsed[1].metadata.format = "whatsapp"
    /\ \E i \in 1..Len(parsed[1].messages) : includes(parsed[1].messages[i].text, <<"\n">>)

\* the text of the message opened by line j: its own text and the
\* continuation lines up to the next date-matching line
RECURSIVE ContinuedText(_, _, _)
ContinuedText(lines, text, k) ==
    IF k > Len(lines) \/ IsDateLine(lines[k]) THEN text
    ELSE IF lines[k].kind = "other"
         THEN ContinuedText(lines, text \o <<"\n">> \o lines[k].text, k + 1)
         ELSE ContinuedText(lines, text, k + 1)

ExpectedMessage(lines, j) ==
    [timestamp |-> lines[j].ts,
     sender |-> trim(lines[j].sender),
     text |-> ContinuedText(lines, trim(lines[j].text), j + 1)]

\* the messages of the kept lines, in line order
RECURSIVE ExpectedFrom(_, _)
ExpectedFrom(lines, j) ==
    IF j > Len(lines) THEN <<>>
    ELSE IF IsKept(lines[j]) THEN <<ExpectedMessage(lines, j)>> \o ExpectedFrom(lines, j + 1)
    ELSE ExpectedFrom(lines, j + 1)

ExpectedWhatsApp(lines) == ExpectedFrom(lines, 1)

\* C3: a date-matching line that isSystemMessage classifies as a system
\* message never becomes a record: at every point of the loop the records
\* made so far are exactly those of the kept lines read so far (the open
\* message before a dropped line is emitted as it was, the lines after a
\* dropped line are attached to nothing), and the returned list holds exactly
\* those records.
C3_SystemLinesDropped ==
    /\ pc = "whatsapp" =>
          pushCurrent(messages, currentMessage) = ExpectedWhatsApp(SubSeq(file.body, 1, idx))
    /\ (pc = "done" /\ parsed[1].metadata.format = "whatsapp") =>
          IsPermutationOf(parsed[1].messages, ExpectedWhatsApp(file.body))

C3_Witness ==
    /\ pc = "done"
    /\ parsed[1].metadata.format = "whatsapp"
    /\ \E j \in 1..(Len(file.body) - 2) :
          /\ IsKept(file.body[j])
          /\ IsDateLine(file.body[j + 1]) /\ ~IsKept(file.body[j + 1])
          /\ file.body[j + 2].kind = "other"

\* C4: parseFile ends in one of three ways: the 'unsupported format' error
\* when detectFileType says unknown; an error of the recognized-but-nothing-
\* parsed class when the format was recognized; or a result with at least one
\* message.  It never returns a result with an empty message list.
C4_ThreeOutcomes ==
    pc \in {"done", "failed"} =>
        \/ /\ detectFileType(file) = "unknown"
           /\ error = Some("unsupported")
           /\ parsed = None
        \/ /\ detectFileType(file) # "unknown"
           /\ error # None
           /\ error[1] \in {"no_messages", "csv_empty", "csv_columns"}
           /\ parsed = None
        \/ /\ detectFileType(file) # "unknown"
           /\ error = None
           /\ parsed # None
           /\ Len(parsed[1].messages) >= 1

ReadingTelegram == pc = "telegram" /\ idx < Len(file.body.elements)

NextElement == file.body.elements[idx + 1]

\* C5: a message block without .from_name produces a message with the sender
\* of the most recently produced message when there is one, and produces
\* nothing when no earlier block produced a message.
C5_SenderFallsBack ==
    [][ (/\ ReadingTelegram
         /\ NextElement.cls = "message"
         /\ NextElement.from = None)
        => IF messages # <<>>
           THEN /\ Len(messages') = Len(messages) + 1
                /\ SubSeq(messages', 1, Len(messages)) = messages
                /\ messages'[Len(messages')].sender = messages[Len(messages)].sender
           ELSE messages' = messages ]_vars

C5_Witness ==
    /\ pc = "telegram"
    /\ idx >= 2
    /\ file.body.elements[idx].cls = "message"
    /\ file.body.elements[idx].from = None
    /\ Len(messages) >= 2
    /\ messages[Len(messages)].sender = messages[Len(messages) - 1].sender

\* ---- permutations of the input files of a merge

IndexPermutations(n) ==
    {p \in [1..n -> 1..n] : \A i, j \in 1..n : i # j => p[i] # p[j]}

Permuted(rs, p) == [i \in 1..Len(rs) |-> rs[p[i]]]

Occurrences(m, msgs) == Cardinality({i \in 1..Len(msgs) : msgs[i] = m})

RECURSIVE SumOfCounts(_)
SumOfCounts(rs) ==
    IF rs = <<>> THEN 0 ELSE Len(Head(rs).messages) + SumOfCounts(Tail(rs))

RECURSIVE SumOfOccurrences(_, _)
SumOfOccurrences(m, rs) ==
    IF rs = <<>> THEN 0
    ELSE Occurrences(m, Head(rs).messages) + SumOfOccurrences(m, Tail(rs))

InputMessages(rs) == UNION {{rs[i].messages[k] : k \in 1..Len(rs[i].messages)} : i \in 1..Len(rs)}

\* none lost, none added
SameMessagesAsInputs(out, rs) ==
    /\ \A m \in InputMessages(rs) : Occurrences(m, out.messages) = SumOfOccurrences(m, rs)
    /\ \A k \in 1..Len(out.messages) : out.messages[k] \in InputMessages(rs)
    /\ out.metadata.totalMessages = SumOfCounts(rs)
    /\ Len(out.messages) = SumOfCounts(rs)

\* two messages of different input files carry the same timestamp
TieAcrossFiles(rs) ==
    \E i, j \in 1..Len(rs) :
       /\ i # j
       /\ \E a \in 1..Len(rs[i].messages), b \in 1..Len(rs[j].messages) :
             rs[i].messages[a].timestamp = rs[j].messages[b].timestamp

Timestamps(msgs) == [i \in 1..Len(msgs) |-> msgs[i].timestamp]

\* C6 as stated: whatever the order of the input files, the merged message
\* sequence is the same, holds exactly the messages of the inputs, and
\* totalMessages is the sum of the inputs' counts.
C6_MergeOrderIndependent ==
    merged # None =>
        /\ SameMessagesAsInputs(merged[1], results)
        /\ \A p \in IndexPermutations(Len(results)) :
              mergeTelegramResults(Permuted(results, p)).messages = merged[1].messages

\* C6 amended: whatever the order of the input files, the merge holds exactly
\* the messages of the inputs, totalMessages is the sum of the inputs' counts
\* and the sequence of timestamps is the same; the message sequence itself is
\* the same when no two messages of different files share a timestamp.
C6_MergeOrderIndependentUpToTies ==
    merged # None =>
        /\ SameMessagesAsInputs(merged[1], results)
        /\ \A p \in IndexPermutations(Len(results)) :
              LET other == mergeTelegramResults(Permuted(results, p))
              IN /\ SameMessagesAsInputs(other, results)
                 /\ Timestamps(other.messages) = Timestamps(merged[1].messages)
                 /\ ~TieAcrossFiles(results) => other.messages = merged[1].messages

C6_Witness ==
    /\ merged # None
    /\ Len(results) >= 2
    /\ results[1].messages # <<>>
    /\ results[2].messages # <<>>
    /\ results[1].messages[1].timestamp > results[2].messages[1].timestamp
    /\ ~TieAcrossFiles(results)

\* ---- C7

CapSeconds == 1440 * 60

\* the adjacent pairs the claim counts: different senders, gap within [0, 1440] minutes
RespondingIndexes(msgs) ==
    {i \in 2..Len(msgs) :
        /\ msgs[i].sender # msgs[i - 1].sender
        /\ msgs[i].timestamp - msgs[i - 1].timestamp >= 0
        /\ msgs[i].timestamp - msgs[i - 1].timestamp <= CapSeconds}

TimingOf == analysisResults[1]

TimingStatistics == TimingOf.statistics[1]

\* C7: analyzeResponseTiming records a latency only between 0 and 1440 minutes
\* and only for a message whose sender differs from the sender of the message
\* just before it; the reported totalResponses is the number of adjacent pairs
\* with different senders and a gap in that range, and it is the sum of the
\* per-sender counts.
C7_ResponsesBoundedAndCounted ==
    (analysisResults # None /\ TimingOf.statistics # None) =>
        /\ \A k \in 1..Len(TimingOf.responses) :
              LET r == TimingOf.responses[k]
              IN /\ r.time >= 0
                 /\ r.time <= CapSeconds
                 /\ \E i \in 2..Len(filteredMessages) :
                       /\ filteredMessages[i].sender = r.sender
                       /\ filteredMessages[i].timestamp = r.timestamp
                       /\ filteredMessages[i - 1].sender # r.sender
                       /\ filteredMessages[i].timestamp - filteredMessages[i - 1].timestamp = r.time
        /\ TimingStatistics.totalResponses = Cardinality(RespondingIndexes(filteredMessages))
        /\ TimingStatistics.totalResponses =
              SumOver([sn \in SenderSet(filteredMessages) |-> TimingStatistics.senderStats[sn].count],
                      sortedSenders(filteredMessages))

\* a run with a reply at exactly 1440 minutes, a same-sender follow-up and a
\* reply that comes too late
C7_Witness ==
    /\ analysisResults # None
    /\ Len(filteredMessages) = 3
    /\ filteredMessages[1].sender = filteredMessages[2].sender
    /\ filteredMessages[3].sender # filteredMessages[2].sender
    /\ filteredMessages[3].timestamp - filteredMessages[2].timestamp = CapSeconds
    /\ TimingOf.statistics # None
    /\ TimingStatistics.totalResponses = 1

\* ---- C8

InitiationOf == analysisResults[1]

InitiationStatistics == InitiationOf.statistics[1]

FourHours == 4 * 3600

\* the messages the claim calls initiations: the first one, and every one that
\* comes four hours or more after the message before it
InitiatingIndexes(msgs) ==
    {i \in 1..Len(msgs) : i = 1 \/ msgs[i].timestamp - msgs[i - 1].timestamp >= FourHours}

LongGaps(msgs) ==
    {i \in 2..Len(msgs) : msgs[i].timestamp - msgs[i - 1].timestamp >= FourHours}

InitiationsCounted ==
    /\ InitiationOf.statistics # None
    /\ \A sn \in SenderSet(filteredMessages) :
          InitiationStatistics.counts[sn] =
              Cardinality({i \in InitiatingIndexes(filteredMessages) : filteredMessages[i].sender = sn})
    /\ InitiationStatistics.total = 1 + Cardinality(LongGaps(filteredMessages))

InitiationExample ==
    <<Message(0, Alice, <<"hi">>), Message(3600, Bob, <<"hi">>), Message(36000, Alice, <<"hi">>)>>

InitiationExampleCounted ==
    filteredMessages = InitiationExample =>
        /\ InitiationStatistics.counts[Alice] = 2
        /\ InitiationStatistics.counts[Bob] = 0

\* C8 (as stated): for every non-empty sequence of messages, analyzeInitiationBalance
\* counts an initiation for a message's sender exactly when the message is the
\* first one or comes 4 hours or more after the one before it, and the total
\* is 1 plus the number of such gaps.
C8_InitiationsCountedForNonEmpty ==
    (analysisResults # None /\ filteredMessages # <<>>) =>
        InitiationsCounted /\ InitiationExampleCounted

\* C8 (amended): the same, for every sequence of at least two messages; a
\* single message yields no statistics at all.
C8_InitiationsCountedFromTwo ==
    /\ (analysisResults # None /\ Len(filteredMessages) >= 2) =>
          InitiationsCounted /\ InitiationExampleCounted
    /\ (analysisResults # None /\ Len(filteredMessages) < 2) =>
          InitiationOf.statistics = None

\* the example of the claim has been analysed: A = 2, B = 0, total 2
C8_Witness ==
    /\ analysisResults # None
    /\ filteredMessages = InitiationExample
    /\ InitiationOf.statistics # None
    /\ InitiationStatistics.total = 2
    /\ InitiationStatistics.counts[Alice] = 2

\* ---- C9

StreaksOf == analysisResults[1]

ActiveDays == {filteredMessages[i].timestamp \div 86400 : i \in 1..Len(filteredMessages)}

\* n consecutive days starting at d are all active
IsRun(d, n) == \A k \in 0..(n - 1) : (d + k) \in ActiveDays

\* a run that cannot be extended on either side
IsMaximalRun(d, n) ==
    /\ n >= 1
    /\ IsRun(d, n)
    /\ (d - 1) \notin ActiveDays
    /\ (d + n) \notin ActiveDays

MaximalRuns ==
    {run \in ActiveDays \X (1..Cardinality(ActiveDays)) : IsMaximalRun(run[1], run[2])}

RECURSIVE SumOfLengths(_)
SumOfLengths(streaks) ==
    IF streaks = <<>> THEN 0 ELSE Head(streaks).length + SumOfLengths(Tail(streaks))

StreakExampleDays == {0, 1, 2, 9}

\* C9: for a non-empty message list, totalActiveDays is the number of distinct
\* UTC dates, longestStreak is the length of the longest run of consecutive
\* dates, the runs found are exactly the maximal runs and their lengths sum to
\* totalActiveDays, and 1 <= longestStreak <= totalActiveDays <= totalSpanDays;
\* the dates d, d+1, d+2, d+9 give longestStreak 3 and totalActiveDays 4.
C9_StreakCounts ==
    (analysisResults # None /\ filteredMessages # <<>>) =>
        /\ StreaksOf.totalActiveDays = Cardinality(ActiveDays)
        /\ \E run \in MaximalRuns : run[2] = StreaksOf.longestStreak
        /\ \A run \in MaximalRuns : run[2] <= StreaksOf.longestStreak
        /\ {<<StreaksOf.streaks[k].start, StreaksOf.streaks[k].length>> :
               k \in 1..Len(StreaksOf.streaks)} = MaximalRuns
        /\ Len(StreaksOf.streaks) = Cardinality(MaximalRuns)
        /\ SumOfLengths(StreaksOf.streaks) = StreaksOf.totalActiveDays
        /\ 1 <= StreaksOf.longestStreak
        /\ StreaksOf.longestStreak <= StreaksOf.totalActiveDays
        /\ StreaksOf.totalActiveDays <= StreaksOf.totalSpanDays
        /\ (ActiveDays = StreakExampleDays =>
               StreaksOf.longestStreak = 3 /\ StreaksOf.totalActiveDays = 4)

\* the example of the claim has been analysed
C9_Witness ==
    /\ analysisResults # None
    /\ ActiveDays = StreakExampleDays
    /\ StreaksOf.longestStreak = 3
    /\ StreaksOf.totalActiveDays = 4
    /\ StreaksOf.totalSpanDays = 10

\* ---- C10

LastActiveDay == CHOOSE d \in ActiveDays : \A e \in ActiveDays : e <= d

\* the length of the run that ends on the last active date
FinalRunLength ==
    CHOOSE n \in 1..Cardinality(ActiveDays) :
        IsMaximalRun(LastActiveDay - n + 1, n)

DayOfSuppliedNow == stNow \div 86400

\* C10: currentStreak is the length of the final run when the last active
\* date is the date of the caller-supplied 'now' or the day before it, and 0
\* in every other case, so that it is a function of the messages and of that
\* 'now' alone.
C10_CurrentStreakFromSuppliedNow ==
    (analysisResults # None /\ filteredMessages # <<>>) =>
        StreaksOf.currentStreak =
            IF LastActiveDay \in {DayOfSuppliedNow, DayOfSuppliedNow - 1}
            THEN FinalRunLength
            ELSE 0

\* ---- C11

PeakOf == analysisResults[1]

RECURSIVE SumOfCellsBetween(_, _, _)
SumOfCellsBetween(cells, from, to) ==
    IF from > to THEN 0
    ELSE IF from = to THEN cells[from].count
    ELSE LET mid == (from + to) \div 2
         IN SumOfCellsBetween(cells, from, mid) + SumOfCellsBetween(cells, mid + 1, to)

SumOfCells(cells) == SumOfCellsBetween(cells, 1, Len(cells))

LocalHour(m) == ((m.timestamp + tz) % 86400) \div 3600

LocalWeekday(m) == (((m.timestamp + tz) \div 86400) + 4) % 7

MessagesInHours(hours) ==
    Cardinality({i \in 1..Len(filteredMessages) : LocalHour(filteredMessages[i]) \in hours})

MessagesOnWeekday(d) ==
    Cardinality({i \in 1..Len(filteredMessages) : LocalWeekday(filteredMessages[i]) = d})

Morning == 6..11
Afternoon == 12..16
Evening == 17..21
Night == (22..23) \cup (0..5)

BucketOf(h) ==
    IF h \in Morning THEN "pagi" ELSE IF h \in Afternoon THEN "siang"
    ELSE IF h \in Evening THEN "malam" ELSE "larut"

AllAt(h, d) ==
    \A i \in 1..Len(filteredMessages) :
        LocalHour(filteredMessages[i]) = h /\ LocalWeekday(filteredMessages[i]) = d

\* C11: for a non-empty message list analyzePeakHours builds 7 x 24 cells
\* whose counts sum to the number of messages; peakHour and peakDay hold the
\* maximum of the hour and day marginals; the four time-of-day buckets count
\* the hours 6-11, 12-16, 17-21 and 22-5 and sum to the number of messages;
\* when every message is at hour h on weekday d, peakHour = h, peakDay = d,
\* the bucket of h is 100% and the three others 0% (hour 14 on a Tuesday:
\* '14:00', 'Tuesday', 100% afternoon).
C11_PeakHoursCounts ==
    (analysisResults # None /\ filteredMessages # <<>>) =>
        LET n == Len(filteredMessages)
            ph == PeakOf.peakHour[1]
            pd == PeakOf.peakDay[1]
        IN /\ Len(PeakOf.heatmapData) = 7 * 24
           /\ \A d \in 0..6, h \in 0..23 :
                 LET cell == PeakOf.heatmapData[24 * d + h + 1]
                 IN /\ cell.day = d
                    /\ cell.hour = h
                    /\ cell.count =
                          Cardinality({i \in 1..n : LocalHour(filteredMessages[i]) = h
                                                    /\ LocalWeekday(filteredMessages[i]) = d})
           /\ SumOfCells(PeakOf.heatmapData) = n
           /\ ph \in 0..23 /\ pd \in 0..6
           /\ \A h \in 0..23 : MessagesInHours({h}) <= MessagesInHours({ph})
           /\ \A d \in 0..6 : MessagesOnWeekday(d) <= MessagesOnWeekday(pd)
           /\ PeakOf.timeOfDay.pagi = MessagesInHours(Morning)
           /\ PeakOf.timeOfDay.siang = MessagesInHours(Afternoon)
           /\ PeakOf.timeOfDay.malam = MessagesInHours(Evening)
           /\ PeakOf.timeOfDay.larut = MessagesInHours(Night)
           /\ PeakOf.timeOfDay.pagi + PeakOf.timeOfDay.siang
                 + PeakOf.timeOfDay.malam + PeakOf.timeOfDay.larut = n
           /\ \A h \in 0..23, d \in 0..6 :
                 AllAt(h, d) =>
                    /\ ph = h /\ pd = d
                    /\ \A b \in {"pagi", "siang", "malam", "larut"} :
                          PeakOf.timeOfDayPercent[b] = IF b = BucketOf(h) THEN 100 ELSE 0
           /\ AllAt(14, 2) =>
                 /\ PeakOf.peakHourLabel = "14:00"
                 /\ PeakOf.peakDayLabelEN = "Tuesday"
                 /\ PeakOf.timeOfDayPercent.siang = 100

\* several messages, all at 14:00 on a Tuesday, have been analysed
C11_Witness ==
    /\ analysisResults # None
    /\ Len(filteredMessages) >= 2
    /\ AllAt(14, 2)
    /\ PeakOf.peakHourLabel = "14:00"
    /\ PeakOf.peakDayLabelEN = "Tuesday"
    /\ PeakOf.timeOfDayPercent.siang = 100

\* ---- C12

EmojiOf == analysisResults[1]

EmojiCharacters == {"U+2764", "U+2B50", "U+1F600", "U+1F44D", "U+1F3FD"}

\* every occurrence of an emoji: <<message index, position in the text>>
EmojiOccurrences ==
    {occ \in UNION {{<<i, k>> : k \in 1..Len(filteredMessages[i].text)} :
                       i \in 1..Len(filteredMessages)} :
        filteredMessages[occ[1]].text[occ[2]] \in EmojiCharacters}

OccurrencesOf(e) == {occ \in EmojiOccurrences : filteredMessages[occ[1]].text[occ[2]] = e}

OccurrencesBy(sn) == {occ \in EmojiOccurrences : filteredMessages[occ[1]].sender = sn}

RECURSIVE SumOfTable(_)
SumOfTable(table) ==
    IF DOMAIN table = {} THEN 0
    ELSE LET key == CHOOSE k \in DOMAIN table : TRUE
         IN table[key] + SumOfTable([k \in DOMAIN table \ {key} |-> table[k]])

\* C12: analyzeEmojiUsage counts every emoji occurrence, repeated ones
\* included, once in totalEmojis, once in the overall per-emoji table and once
\* in the table of its sender, so totalEmojis is the sum of the per-sender
\* counts and the sum of the per-emoji counts; messagesWithEmojis counts the
\* messages with at least one emoji; hasEmojis is false exactly when
\* totalEmojis is 0.
C12_EmojiCountsAgree ==
    analysisResults # None =>
        /\ EmojiOf.hasEmojis = (EmojiOf.totalEmojis # 0)
        /\ filteredMessages # <<>> =>
              /\ EmojiOf.totalEmojis = Cardinality(EmojiOccurrences)
              /\ DOMAIN EmojiOf.emojiCounts = {e \in EmojiCharacters : OccurrencesOf(e) # {}}
              /\ \A e \in DOMAIN EmojiOf.emojiCounts :
                    EmojiOf.emojiCounts[e] = Cardinality(OccurrencesOf(e))
              /\ \A sn \in SenderSet(filteredMessages) :
                    /\ EmojiOf.perSender[sn].count = Cardinality(OccurrencesBy(sn))
                    /\ \A e \in DOMAIN EmojiOf.perSender[sn].emojis :
                          EmojiOf.perSender[sn].emojis[e] =
                              Cardinality(OccurrencesOf(e) \cap OccurrencesBy(sn))
                    /\ SumOfTable(EmojiOf.perSender[sn].emojis) = EmojiOf.perSender[sn].count
              /\ EmojiOf.totalEmojis =
                    SumOfTable([sn \in SenderSet(filteredMessages) |-> EmojiOf.perSender[sn].count])
              /\ EmojiOf.totalEmojis = SumOfTable(EmojiOf.emojiCounts)
              /\ EmojiOf.messagesWithEmojis =
                    Cardinality({occ[1] : occ \in EmojiOccurrences})

\* two senders; one message holds two different emojis, one of them twice
C12_Witness ==
    /\ analysisResults # None
    /\ Len(filteredMessages) = 3
    /\ \E i \in 1..3 : filteredMessages[i].text = <<"U+1F600", " ", "U+1F600", "U+2764">>
    /\ \E i \in 1..3 : filteredMessages[i].text = <<"hi">>
    /\ Cardinality(SenderSet(filteredMessages)) = 2
    /\ EmojiOf.totalEmojis >= 4
    /\ EmojiOf.messagesWithEmojis = 2

\* ---- C13

\* C13: running the analyzers again on the same message array gives the same
\* results, whatever happened between the two runs (time passing included).
C13_RerunIdentical ==
    [][(/\ ReanalysisTimeout
        /\ analysisResults # None
        /\ filteredMessages' = filteredMessages)
       => analysisResults' = analysisResults]_vars

\* ---- C18

RangeOf(seq) == {seq[i] : i \in 1..Len(seq)}

UtcDayOf(m) == m.timestamp \div 86400

LocalDayOf(m, zone) == (m.timestamp + zone) \div 86400

DayInRange(day, start, end) ==
    /\ (start # None => day >= start[1])
    /\ (end # None => day <= end[1])

\* in the selected date range by the UTC calendar and by the local one
ClearlyInRange(m, start, end, zone) ==
    DayInRange(UtcDayOf(m), start, end) /\ DayInRange(LocalDayOf(m, zone), start, end)

\* outside the selected date range by both calendars
ClearlyOutOfRange(m, start, end, zone) ==
    ~DayInRange(UtcDayOf(m), start, end) /\ ~DayInRange(LocalDayOf(m, zone), start, end)

\* a control of the filter panel is used
FilterPanelUsed ==
    HandleParticipantToggle \/ SelectAllParticipants \/ ChangeDateRange
        \/ ApplyParticipantFilter

\* analyzeConversation is called with the flag given and cannot parse
ParseFails(reanalyzing) ==
    /\ needsParse(parsedData, reanalyzing)
    /\ (currentFile = None \/ parseFileOf(currentFile[1]) = None)

\* a call of analyzeConversation reaches runAnalysis
AnalysisRun ==
    \/ AnalyzeConversation /\ ~ParseFails(isReanalyzing)
    \/ ReanalysisTimeout /\ parsedData # None

\* C18: the filter panel and re-analysis never change parsedData.messages, and
\* each run hands the analyzers the sub-sequence of parsedData.messages, in
\* the original order, of the messages whose sender is not excluded and whose
\* timestamp lies within the selected date range (a message whose day is
\* within the range by one calendar and outside it by the other may go either
\* way here).
C18_FilteredViewOfParsedData ==
    [][/\ (FilterPanelUsed \/ ReanalysisTimeout) => parsedData' = parsedData
       /\ AnalysisRun =>
             LET all == parsedData'[1].messages
                 kept == RangeOf(filteredMessages')
             IN /\ filteredMessages' = SelectSeq(all, LAMBDA m : m \in kept)
                /\ \A m \in RangeOf(all) :
                      /\ (m \in kept) => m.sender \notin excludedParticipants'
                      /\ (m \in kept) => ~ClearlyOutOfRange(m, startDate', endDate', tz)
                      /\ (m.sender \notin excludedParticipants'
                          /\ ClearlyInRange(m, startDate', endDate', tz)) => m \in kept
      ]_vars

\* ---- C14

ResultsOf == analysisResults[1]

Threw(result) == result = TypeError

SingleSender(msgs) == Cardinality(SenderSet(msgs)) = 1

\* Every one of the ten results of an empty list is the analyzer's empty shape.
EmptyShaped(r) ==
    /\ r.activity.labels = <<>> /\ r.activity.datasets = <<>>
    /\ r.response.labels = <<>> /\ r.response.datasets = <<>> /\ r.response.statistics = None
    /\ r.initiation.labels = <<>> /\ r.initiation.data = <<>> /\ r.initiation.statistics = None
    /\ r.language.wordCloud = <<>> /\ r.language.topWords = <<>>
    /\ r.language.statistics = None
    /\ r.rhythm.rhythm = "insufficient_data" /\ r.rhythm.details = None
    /\ r.emoji.totalEmojis = 0 /\ r.emoji.topEmojis = <<>> /\ ~r.emoji.hasEmojis
    /\ r.peakHours.heatmapData = <<>> /\ r.peakHours.peakHour = None
    /\ r.peakHours.peakDay = None
    /\ r.streaks.longestStreak = 0 /\ r.streaks.currentStreak = 0
    /\ r.streaks.totalActiveDays = 0 /\ r.streaks.streakHistory = <<>>
    /\ r.messageLength.avgLength = 0 /\ r.messageLength.labels = <<>>
    /\ r.messageLength.datasets = <<>>
    /\ r.firstLast.morningPerson = None /\ r.firstLast.nightOwl = None

\* With one sender nobody responds, and the one sender has every initiation.
SingleSenderShaped(msgs, r) ==
    IF Len(msgs) < 2
    THEN r.response.statistics = None /\ r.initiation.statistics = None
    ELSE /\ r.response.labels = <<>>
         /\ r.response.statistics[1].totalResponses = 0
         /\ r.response.statistics[1].trend = "stable"
         /\ r.initiation.labels = <<msgs[1].sender>>
         /\ r.initiation.statistics[1].total = r.initiation.data[1]
         /\ r.initiation.statistics[1].total >= 1
         /\ r.initiation.statistics[1].lessInitiator = Some(msgs[1].sender)

\* C14: no analyzer throws on an empty message list, each returning its
\* empty-shaped result, and neither analyzeInitiationBalance nor
\* analyzeResponseTiming throws on a list, of any length, whose messages all
\* have the same sender.
C14_NoThrowOnEmptyOrSingleSender ==
    analysisResults # None =>
        /\ filteredMessages = <<>> =>
              /\ \A name \in DOMAIN ResultsOf : ~Threw(ResultsOf[name])
              /\ EmptyShaped(ResultsOf)
        /\ SingleSender(filteredMessages) =>
              /\ ~Threw(ResultsOf.initiation)
              /\ ~Threw(ResultsOf.response)
              /\ SingleSenderShaped(filteredMessages, ResultsOf)

\* the analyzers have run on the empty list
C14_Witness ==
    /\ analysisResults # None
    /\ filteredMessages = <<>>
    /\ ResultsOf.rhythm.rhythm = "insufficient_data"

\* ---- C15

\* The fields of the ten results that come out of a division or a difference.
NumericFields(r) ==
    {r.activity.statistics.avgPerBin,
     r.activity.statistics.firstHalfAvg,
     r.activity.statistics.secondHalfAvg}
    \cup (IF r.initiation.statistics = None THEN {}
          ELSE {r.initiation.statistics[1].difference})
    \cup (IF r.rhythm.details = None THEN {}
          ELSE {r.rhythm.details[1].avgGapMinutes,
                r.rhythm.details[1].medianGapMinutes,
                r.rhythm.details[1].variabilityCoefficient,
                r.rhythm.details[1].firstPhaseAvgGap,
                r.rhythm.details[1].lastPhaseAvgGap})
    \cup {r.language.topWords[k].percentage : k \in 1..Len(r.language.topWords)}
    \cup {r.language.statistics[1].senderStats[sn].avgWordsPerMessage :
             sn \in DOMAIN r.language.statistics[1].senderStats}

\* C15: for every non-empty, timestamp-sorted message list no numeric field of
\* any analyzer result is NaN or infinite, a list that falls in a single time
\* bin, a list whose messages share one timestamp and a single-sender list
\* included.
C15_NoNaNInResults ==
    (analysisResults # None /\ filteredMessages # <<>>) =>
        \A v \in NumericFields(ResultsOf) : IsFinite(v)

\* ---- C16

NamesOf(list) == {list[k] : k \in 1..Len(list)}

\* The header has, in some position and in any letter case, a recognized name
\* for the column.
HasColumn(header, names) ==
    \E i \in 1..Len(header) : LowerToken(header[i]) \in NamesOf(names)

HeaderRecognized(header) ==
    /\ HasColumn(header, timestampNames)
    /\ HasColumn(header, senderNames)
    /\ HasColumn(header, messageNames)

\* The position (from 1) of the column: the first name of the list that the
\* header has decides.
ColumnOf(header, names) == findColumnIndex(toLowerCase(header), names)[1] + 1

\* The message is made of the row's cells in the three recognized columns.
ReadFrom(m, row, header) ==
    /\ Len(row) >= ColumnOf(header, timestampNames)
    /\ Len(row) >= ColumnOf(header, senderNames)
    /\ Len(row) >= ColumnOf(header, messageNames)
    /\ m.timestamp = row[ColumnOf(header, timestampNames)].date
    /\ m.sender = trim(row[ColumnOf(header, senderNames)].s)
    /\ m.text = trim(row[ColumnOf(header, messageNames)].s)

ParsingCSV == detectFileType(file) = "csv" /\ Len(file.body) >= 2

\* C16: parseCSV accepts every CSV whose header row has, in any positions and
\* any letter case, one recognized name for each of the timestamp, sender and
\* message columns, and reads each row's fields from those columns; it
\* rejects the file with the missing-columns error only when one of the
\* three has no matching header.
C16_RecognizedHeadersAccepted ==
    (ParsingCSV /\ pc \in {"csv", "done", "failed"}) =>
        /\ error = Some("csv_columns") <=> ~HeaderRecognized(file.body[1])
        /\ \A k \in 1..Len(messages) :
              \E i \in 2..Len(file.body) : ReadFrom(messages[k], file.body[i], file.body[1])

\* ---- C17

\* The part of the name after its last dot, in lower case.
Extension(f) == LowerToken(f.name[Len(f.name)])

HoldsTelegramMarker(f) == \E marker \in NamesOf(TelegramMarkers) : marker \in f.body.markers

HasDateTimeLine(f) == \E i \in 1..Len(f.body) : f.body[i].prefix # 0

\* The type as a function of the extension and the content signature.
TypeBySignature(f) ==
    CASE Extension(f) = "csv" -> "csv"
      [] Extension(f) \in {"html", "htm"} ->
            IF HoldsTelegramMarker(f) THEN "telegram" ELSE "unknown"
      [] Extension(f) = "txt" -> IF HasDateTimeLine(f) THEN "whatsapp" ELSE "unknown"
      [] OTHER -> "unknown"

\* The type parseFile went by, read off the step it took.
TypeTaken(nextPc, nextError) ==
    CASE nextPc = "whatsapp" -> "whatsapp"
      [] nextPc = "csv_header" -> "csv"
      [] nextPc \in {"telegram", "alternative"} -> "telegram"
      [] nextPc = "failed" /\ nextError = Some("unsupported") -> "unknown"
      [] OTHER -> "none"

\* The same file with its lines in another order.
Reordered(f) ==
    IF f.kind = "text"
    THEN {[f EXCEPT !.body = Permuted(f.body, p)] : p \in IndexPermutations(Len(f.body))}
    ELSE {f}

NonEmptySender(m) == trim(m.sender) # <<>>

\* C19: every message a parser returns has a non-empty sender; a line or row
\* whose sender is empty or only white space produces no message.
C19_SendersNonEmpty ==
    /\ \A k \in 1..Len(messages) : NonEmptySender(messages[k])
    /\ currentMessage # None => NonEmptySender(currentMessage[1])
    /\ parsed # None => \A k \in 1..Len(parsed[1].messages) : NonEmptySender(parsed[1].messages[k])

\* ---- C20

HasOwnName(r) ==
    r.metadata.chatName # None /\ r.metadata.chatName[1] # DefaultChatName

Named(rs) == {i \in 1..Len(rs) : HasOwnName(rs[i])}

FirstNamed(rs) == CHOOSE i \in Named(rs) : \A j \in Named(rs) : i <= j

LastNamed(rs) == CHOOSE i \in Named(rs) : \A j \in Named(rs) : i >= j

ParticipantsOf(rs) ==
    UNION {NamesOf(rs[i].metadata.participants) : i \in 1..Len(rs)}

\* The participants are the union of the inputs' participants, each once.
ParticipantsUnited(result, rs) ==
    /\ NamesOf(result.metadata.participants) = ParticipantsOf(rs)
    /\ Len(result.metadata.participants) = Cardinality(ParticipantsOf(rs))

\* C20 as stated: the merged chatName is the first non-default chat name in
\* input order, the default 'Telegram Chat' only if every input has the
\* default, and the participants are the union of the inputs' participant
\* sets with no duplicates.
C20_FirstChatNameKept ==
    merged # None =>
        /\ merged[1].metadata.chatName =
              IF Named(results) = {} THEN Some(DefaultChatName)
              ELSE results[FirstNamed(results)].metadata.chatName
        /\ ParticipantsUnited(merged[1], results)

\* C20 amended: the merged chatName is the last non-default chat name in
\* input order, the default 'Telegram Chat' only if every input has the
\* default, and the participants are the union of the inputs' participant
\* sets with no duplicates.
C20_LastChatNameKept ==
    merged # None =>
        /\ merged[1].metadata.chatName =
              IF Named(results) = {} THEN Some(DefaultChatName)
              ELSE results[LastNamed(results)].metadata.chatName
        /\ ParticipantsUnited(merged[1], results)

\* two files with different names of their own and a participant in common
C20_Witness ==
    /\ merged # None
    /\ Len(results) >= 2
    /\ HasOwnName(results[1]) /\ HasOwnName(results[2])
    /\ results[1].metadata.chatName # results[2].metadata.chatName
    /\ NamesOf(results[1].metadata.participants)
          \cap NamesOf(results[2].metadata.participants) # {}

\* ---- C21

RhythmOf == analysisResults[1]

\* the gaps of the analysed list in minutes, as fractions of 60
GapAt(i) == filteredMessages[i + 1].timestamp - filteredMessages[i].timestamp

NumGaps == Len(filteredMessages) - 1

ThirdSize == NumGaps \div 3

RECURSIVE GapSum(_, _)
GapSum(from, to) == IF from > to THEN 0 ELSE GapAt(from) + GapSum(from + 1, to)

FirstThirdSum == GapSum(1, ThirdSize)

LastThirdSum == GapSum(NumGaps - ThirdSize + 1, NumGaps)

\* n * (sum of squared deviations from the mean) * n, over the gaps in minutes
RECURSIVE MinuteSquares(_)
MinuteSquares(i) ==
    IF i = 0 THEN 0
    ELSE (GapAt(i) \div SecondsPerMinute) * (GapAt(i) \div SecondsPerMinute) + MinuteSquares(i - 1)

MinuteSum == GapSum(1, NumGaps) \div SecondsPerMinute

SpreadSquared == NumGaps * MinuteSquares(NumGaps) - MinuteSum * MinuteSum

\* cv > 1.5 and cv < 0.8 for cv = standard deviation / mean of the gaps
CvOver15 ==
    \/ MinuteSum > 0 /\ 4 * SpreadSquared > 9 * MinuteSum * MinuteSum
    \/ MinuteSum = 0 /\ SpreadSquared > 0

CvUnder08 ==
    \/ MinuteSum > 0 /\ 25 * SpreadSquared < 16 * MinuteSum * MinuteSum
    \/ MinuteSum < 0

ExpectedRhythm ==
    IF LastThirdSum > 2 * FirstThirdSum THEN "slowing"
    ELSE IF CvOver15 THEN "irregular"
    ELSE IF 2 * LastThirdSum < FirstThirdSum THEN "accelerating"
    ELSE IF CvUnder08 THEN "stable"
    ELSE "variable"

\* C21: for a list of at least 5 messages the rhythm is the first label of the
\* chain slowing, irregular, accelerating, stable, variable whose test holds,
\* and the reported confidence lies between 0 and 0.9
C21_RhythmChainAndConfidence ==
    (analysisResults # None /\ Len(filteredMessages) >= 5) =>
        /\ RhythmOf.rhythm = ExpectedRhythm
        /\ RhythmOf.confidence >= 0
        /\ RhythmOf.confidence <= 90

\* ---- C22

ActivityOf == analysisResults[1]

ActivityDone == analysisResults # None /\ filteredMessages # <<>>

\* seconds between the first and the last message of the list
SpanOf == filteredMessages[Len(filteredMessages)].timestamp - filteredMessages[1].timestamp

ExpectedBinType ==
    IF SpanOf <= 60 * SecondsPerDay THEN "day"
    ELSE IF SpanOf <= 365 * SecondsPerDay THEN "week"
    ELSE "month"

NumBins == Len(ActivityOf.labels)

RECURSIVE SenderCountsIn(_, _)
SenderCountsIn(k, s) ==
    IF s = 0 THEN 0 ELSE ActivityOf.datasets[s].data[k] + SenderCountsIn(k, s - 1)

RECURSIVE BinTotals(_, _)
BinTotals(from, to) ==
    IF from > to THEN 0 ELSE ActivityOf.totals[from] + BinTotals(from + 1, to)

FirstHalfBins == BinTotals(1, NumBins \div 2)

SecondHalfBins == BinTotals((NumBins \div 2) + 1, NumBins)

ExpectedActivityTrend ==
    IF 10 * SecondHalfBins > 12 * FirstHalfBins THEN "increasing"
    ELSE IF 10 * SecondHalfBins < 8 * FirstHalfBins THEN "decreasing"
    ELSE "stable"

\* C22: the bin width is 'day' for a span of at most 60 days, 'week' for at
\* most 365 days and 'month' beyond; every bin's total is the sum of its
\* per-sender counts, the totals add up to the number of messages, and the
\* trend compares the totals of the two halves of the bins with 1.2 and 0.8
C22_BinsAndTrend ==
    ActivityDone =>
        /\ ActivityOf.binType = ExpectedBinType
        /\ \A k \in 1..NumBins :
               /\ ActivityOf.totals[k] = SenderCountsIn(k, Len(ActivityOf.datasets))
               /\ ActivityOf.totals[k] > 0
        /\ BinTotals(1, NumBins) = Len(filteredMessages)
        /\ ActivityOf.statistics.trend = ExpectedActivityTrend

\* a list spanning exactly 60 days is binned by day, with more messages in
\* the second half of its bins
C22_Witness ==
    /\ ActivityDone
    /\ SpanOf = 60 * SecondsPerDay
    /\ Len(ActivityOf.datasets) = 2
    /\ NumBins = 2
    /\ ActivityOf.statistics.trend = "increasing"

\* ---- C23

TimingDone == analysisResults # None /\ Len(filteredMessages) >= 2

\* n, the number of recorded responses
Recorded == Len(TimingOf.responses)

Clamped == IF Recorded \div 5 < 3 THEN 3 ELSE IF Recorded \div 5 > 10 THEN 10 ELSE Recorded \div 5

NumPeriods == Len(TimingOf.labels)

RECURSIVE ResponseSum(_, _)
ResponseSum(from, to) ==
    IF from > to THEN 0 ELSE TimingOf.responses[from].time + ResponseSum(from + 1, to)

\* the k-th period holds the responses (k - 1) * size + 1 .. k * size, cut
\* at the last response
PeriodFrom(k, size) == (k - 1) * size + 1
PeriodTo(k, size) == IF k * size > Recorded THEN Recorded ELSE k * size
PeriodCount(k, size) == PeriodTo(k, size) - PeriodFrom(k, size) + 1
PeriodSum(k, size) == ResponseSum(PeriodFrom(k, size), PeriodTo(k, size))

\* the point of the trend line of period k is its average, in tenths of a minute
PeriodPoint(k, size) ==
    (2 * PeriodSum(k, size) + 6 * PeriodCount(k, size)) \div (12 * PeriodCount(k, size))

PeriodsCover(size) ==
    /\ \A k \in 1..NumPeriods :
           /\ PeriodCount(k, size) > 0
           /\ TimingOf.datasets[1].data[k] = PeriodPoint(k, size)
    /\ NumPeriods = 0 => Recorded = 0
    /\ NumPeriods > 0 => PeriodTo(NumPeriods, size) = Recorded

\* the averages of the period averages of the two halves, compared after
\* multiplying both by the sizes of the periods and of the halves; only the
\* last period may be smaller than the others
RECURSIVE PeriodSums(_, _, _)
PeriodSums(from, to, size) ==
    IF from > to THEN 0 ELSE PeriodSum(from, size) + PeriodSums(from + 1, to, size)

ExpectedResponseTrend(size) ==
    IF NumPeriods < 2 THEN "stable"
    ELSE LET half == NumPeriods \div 2
             rest == NumPeriods - half
             lastCount == PeriodCount(NumPeriods, size)
             first == PeriodSums(1, half, size) * lastCount * rest
             second == (PeriodSums(half + 1, NumPeriods - 1, size) * lastCount
                        + PeriodSum(NumPeriods, size) * size) * half
         IN IF 10 * second > 15 * first THEN "slowing"
            ELSE IF 10 * second < 7 * first THEN "quickening"
            ELSE "stable"

\* C23: the trend line has exactly clamp(floor(n / 5), 3, 10) periods of equal
\* size that hold every response once, in chronological order, and the trend
\* compares the averages of the two halves of the periods with 1.5 and 0.7
C23_ExactlyClampedEqualPeriods ==
    TimingDone =>
        /\ NumPeriods = Clamped
        /\ Recorded % Clamped = 0
        /\ PeriodsCover(Recorded \div Clamped)
        /\ TimingOf.statistics[1].trend = ExpectedResponseTrend(Recorded \div Clamped)

\* C23 as amended: the periods are the non-empty ones among
\* clamp(floor(n / 5), 3, 10) chronological slices of ceil(n / that number)
\* responses, the last one possibly shorter; they hold every response once,
\* and the trend compares the averages of their two halves with 1.5 and 0.7,
\* being 'stable' for fewer than two periods
C23_AtMostClampedPeriods ==
    TimingDone =>
        LET size == (Recorded + Clamped - 1) \div Clamped
        IN /\ NumPeriods <= Clamped
           /\ \A i \in 1..(Len(TimingOf.responses) - 1) :
                  TimingOf.responses[i].timestamp <= TimingOf.responses[i + 1].timestamp
           /\ PeriodsCover(size)
           /\ TimingOf.statistics[1].trend = ExpectedResponseTrend(size)

\* 51 responses: ten slices of six, of which nine periods are filled, the
\* last with three responses
C23_Witness ==
    /\ TimingDone
    /\ Recorded = 51
    /\ NumPeriods = 9
    /\ TimingOf.statistics[1].trend = "slowing"

\* ---- C24

TwoParticipants ==
    /\ analysisResults # None
    /\ Len(filteredMessages) >= 2
    /\ {filteredMessages[i].sender : i \in 1..Len(filteredMessages)} = {Alice, Bob}

\* the initiations of a participant: the first message and every message
\* four hours or more after the one before it
StartsOf(sn) ==
    Cardinality({i \in InitiatingIndexes(filteredMessages) : filteredMessages[i].sender = sn})

AllStarts == Cardinality(InitiatingIndexes(filteredMessages))

\* the share of a participant in percent, rounded to the nearest integer
ShareOf(sn) ==
    CHOOSE pct \in 0..100 :
        /\ 2 * 100 * StartsOf(sn) >= (2 * pct - 1) * AllStarts
        /\ 2 * 100 * StartsOf(sn) < (2 * pct + 1) * AllStarts

ShareDifference ==
    IF ShareOf(Alice) >= ShareOf(Bob)
    THEN ShareOf(Alice) - ShareOf(Bob) ELSE ShareOf(Bob) - ShareOf(Alice)

ExpectedBalance ==
    IF ShareDifference <= 10 THEN "balanced"
    ELSE IF ShareDifference <= 25 THEN "slightly_unbalanced"
    ELSE "unbalanced"

\* C24: with two participants the percentages are the rounded shares of the
\* initiations, balance is 'balanced' for a difference of at most 10 points,
\* 'slightly_unbalanced' for at most 25 and 'unbalanced' beyond, and a
\* participant with strictly more initiations than the other is the moreInitiator
C24_BalanceOfTwo ==
    TwoParticipants =>
        /\ \A sn \in {Alice, Bob} : InitiationStatistics.percentages[sn] = ShareOf(sn)
        /\ InitiationStatistics.balance = ExpectedBalance
        /\ \A sn \in {Alice, Bob} :
               StartsOf(sn) > StartsOf(otherOf(sn)) =>
                   /\ InitiationStatistics.moreInitiator = Some(sn)
                   /\ InitiationStatistics.lessInitiator = Some(otherOf(sn))

\* six initiations against five: 55 and 45 percent, ten points apart
C24_Witness ==
    /\ TwoParticipants
    /\ StartsOf(Bob) = 6
    /\ StartsOf(Alice) = 5
    /\ InitiationStatistics.difference = Finite(10)
    /\ InitiationStatistics.balance = "balanced"
    /\ InitiationStatistics.moreInitiator = Some(Bob)

\* ---- C25

\* a step of the loop of parseTelegramExport that produces a message
TelegramMessageProduced ==
    /\ pc = "telegram"
    /\ idx' = idx + 1
    /\ Len(messages') = Len(messages) + 1

BlockTaken == file.body.elements[idx + 1]

ProducedTimestamp == messages'[Len(messages')].timestamp

TitleParses == BlockTaken.dateEl.kind = "title" /\ BlockTaken.dateEl.title # None

ShowsTime == BlockTaken.dateEl.kind # "none" /\ BlockTaken.dateEl.time # None

\* the day of the running currentDate at the hour and minute shown
CurrentDateAt(time) ==
    ((currentDate + tz) \div SecondsPerDay) * SecondsPerDay - tz
    + time[1] * SecondsPerHour + time[2] * SecondsPerMinute

\* C25: a message of parseTelegramExport is stamped with the datetime of the
\* title attribute of its date element whenever that attribute parses, and
\* otherwise, when the element shows an HH:MM time, with the running
\* currentDate at that time
C25_TitleElseTimeOfDay ==
    [][TelegramMessageProduced =>
          /\ TitleParses => ProducedTimestamp = BlockTaken.dateEl.title[1]
          /\ (~TitleParses /\ ShowsTime) =>
                 ProducedTimestamp = CurrentDateAt(BlockTaken.dateEl.time[1])]_vars

\* ---- C26

\* the three checks of a data row: enough columns, no empty required field,
\* a timestamp that is a valid point in time
RowPasses(row, header) ==
    /\ Len(row) >= ColumnOf(header, timestampNames)
    /\ Len(row) >= ColumnOf(header, senderNames)
    /\ Len(row) >= ColumnOf(header, messageNames)
    /\ row[ColumnOf(header, timestampNames)].s # <<>>
    /\ row[ColumnOf(header, senderNames)].s # <<>>
    /\ row[ColumnOf(header, messageNames)].s # <<>>
    /\ row[ColumnOf(header, timestampNames)].date # NaN

PassingRows == {i \in 2..Len(file.body) : RowPasses(file.body[i], file.body[1])}

\* C26: a row of parseCSV that fails one of the three checks contributes no
\* message and does not end the parse; every returned message has a valid
\* timestamp and there are as many messages as rows that pass the checks
C26_OnlyValidRowsKept ==
    /\ (ParsingCSV /\ pc = "done") =>
          /\ \A k \in 1..Len(parsed[1].messages) : parsed[1].messages[k].timestamp # NaN
          /\ Len(parsed[1].messages) = Cardinality(PassingRows)
    /\ (ParsingCSV /\ error = Some("no_messages")) => PassingRows = {}

\* ---- C27

\* a field without white space at either end
Untrimmed(field) ==
    field # <<>> /\ (field[1] \in {" ", "\n"} \/ field[Len(field)] \in {" ", "\n"})

Encodable(fields) ==
    /\ fields # <<>>
    /\ \A k \in 1..Len(fields) : ~Untrimmed(fields[k])

\* C27: parseCSVLine gives back the fields of every record of one or more
\* fields without white space at their ends, commas and double quotes
\* included, that is written with each field in double quotes and its inner
\* quotes doubled; a comma inside a quoted field starts no new field
C27_QuotedFieldsRoundTrip ==
    (csvValues # None /\ csvLine = quotedLine(csvFields) /\ Encodable(csvFields)) =>
        csvValues[1] = csvFields

\* a record with a comma field, a quote field and an empty field has been split
C27_Witness ==
    /\ csvValues # None
    /\ csvFields = << <<",">>, <<"\"">>, <<>> >>
    /\ csvLine = quotedLine(csvFields)
    /\ csvValues[1] = << <<",">>, <<"\"">>, <<>> >>

\* ---- C28

\* the filtered view is parsedData.messages without some of its messages,
\* in the original order
ViewOf(view, all) ==
    view = SelectSeq(all, LAMBDA m : m \in RangeOf(view))

\* C28: the re-analysis that applying the filter starts never parses: it finds
\* parsed data, leaves parsedData, allParticipants and the exclusion set (and
\* the chosen file) as they were, and recomputes the filtered view and the
\* analysis results from the messages already parsed.
C28_ReanalysisNeverParses ==
    [][ReanalysisTimeout =>
          /\ parsedData # None
          /\ parsedData' = parsedData
          /\ allParticipants' = allParticipants
          /\ excludedParticipants' = excludedParticipants
          /\ currentFile' = currentFile
          /\ ViewOf(filteredMessages', parsedData[1].messages)
          /\ \A i \in 1..Len(filteredMessages') :
                filteredMessages'[i].sender \notin excludedParticipants
          /\ analysisResults' = Some(analyze(filteredMessages', clock, tz))
      ]_vars

\* a re-analysis with Bob excluded has shown the results of Alice's messages
C28_Witness ==
    /\ resultsShown /\ ~scheduled
    /\ parsedData # None
    /\ SenderSet(parsedData[1].messages) = {Alice, Bob}
    /\ excludedParticipants = {Bob}
    /\ filteredMessages # <<>>
    /\ SenderSet(filteredMessages) = {Alice}
    /\ analysisResults = Some(analyze(filteredMessages, clock, tz))

\* ---- C29

\* the Analyze button can be pressed: the upload section is shown and an
\* export is chosen
CanAnalyze == uploadShown /\ currentFile # None

\* what the Analyze action would do in this state: parse the chosen export
\* (which resets the exclusion set) before running the analysis
AnalyzeWouldParse == needsParse(parsedData, isReanalyzing)

\* C29: isReanalyzing is false whenever no call of analyzeConversation is
\* running or scheduled, and so in every reachable state the Analyze action on
\* the chosen export parses it, resets the exclusion set to empty and computes
\* the results from its messages, also after a re-analysis that ended in an
\* error.
C29_AnalyzeStartsAfresh ==
    /\ ~scheduled => ~isReanalyzing
    /\ CanAnalyze => AnalyzeWouldParse

\* ---- C30

\* the Analyze action parses the chosen export in this step
ParsedNow ==
    /\ AnalyzeConversation
    /\ needsParse(parsedData, isReanalyzing)
    /\ parseFileOf(currentFile[1]) # None

\* C30: right after a file is parsed, with nobody excluded and the two date
\* inputs at the dates of the earliest and the latest message, the list handed
\* to the analyzers is the complete parsed list, in every time zone and for
\* every time of day of the first and last message.
C30_FreshAnalysisSeesAllMessages ==
    [][ParsedNow =>
          /\ excludedParticipants' = {}
          /\ startDate' = Some(UtcDayOf(parsedData'[1].messages[1]))
          /\ endDate' = Some(UtcDayOf(parsedData'[1].messages[Len(parsedData'[1].messages)]))
          /\ filteredMessages' = parsedData'[1].messages
      ]_vars

====
